---- MODULE Spec2Model ----
(***************************************************************************)
(* Diagnosis scoring of the telemedicine assistant: the severity engine,   *)
(* the pattern matcher, the classifier's lazy load/train and the           *)
(* aggregator that merges them into one ranked result list.                *)
(*                                                                         *)
(* Numbers.  Symptom scores, pattern scores, importance weights and        *)
(* classifier probabilities are integers in hundredths (0.8 is 80).        *)
(* Merged scores and base confidences are integers in ten-thousandths      *)
(* (0.8 is 8000).  Confidences and averages are exact fractions <<n, d>>   *)
(* in lowest terms, so 0.96 is <<24, 25>>.                                 *)
(***************************************************************************)
EXTENDS Integers, Sequences, FiniteSets, TLC

VARIABLES
    catalog,                  \* data_loader tables: medicine and precaution rows
    symptom_disease_mapping,  \* DiagnosisEngine.symptom_disease_mapping
    is_trained,               \* MLDiagnosisModel.is_trained
    artifacts,                \* the .pkl files present under models/
    phase,                    \* "idle" | "returned" | "raised" | "analyzed": position of the caller
    call,                     \* arguments and environment of the last diagnose call
    hash_seed,                \* the process's str hash seed: fixes the order of list(set(...))
    results                   \* list returned by the last diagnose call

vars == <<catalog, symptom_disease_mapping, is_trained, artifacts, phase, call, hash_seed, results>>

\* Optional values: None is the empty tuple, a present value v is <<v>>
None == <<>>
Some(v) == <<v>>

\* a function with domain 1..n as the tuple of its values
Tuple(f) == f \o <<>>

----------------------------------------------------------------------------
(* Python string operations *)

LowerOf ==
    ("A" :> "a") @@ ("B" :> "b") @@ ("C" :> "c") @@ ("D" :> "d") @@ ("E" :> "e") @@ ("F" :> "f")
 @@ ("G" :> "g") @@ ("H" :> "h") @@ ("I" :> "i") @@ ("J" :> "j") @@ ("K" :> "k") @@ ("L" :> "l")
 @@ ("M" :> "m") @@ ("N" :> "n") @@ ("O" :> "o") @@ ("P" :> "p") @@ ("Q" :> "q") @@ ("R" :> "r")
 @@ ("S" :> "s") @@ ("T" :> "t") @@ ("U" :> "u") @@ ("V" :> "v") @@ ("W" :> "w") @@ ("X" :> "x")
 @@ ("Y" :> "y") @@ ("Z" :> "z")

UpperOf ==
    ("a" :> "A") @@ ("b" :> "B") @@ ("c" :> "C") @@ ("d" :> "D") @@ ("e" :> "E") @@ ("f" :> "F")
 @@ ("g" :> "G") @@ ("h" :> "H") @@ ("i" :> "I") @@ ("j" :> "J") @@ ("k" :> "K") @@ ("l" :> "L")
 @@ ("m" :> "M") @@ ("n" :> "N") @@ ("o" :> "O") @@ ("p" :> "P") @@ ("q" :> "Q") @@ ("r" :> "R")
 @@ ("s" :> "S") @@ ("t" :> "T") @@ ("u" :> "U") @@ ("v" :> "V") @@ ("w" :> "W") @@ ("x" :> "X")
 @@ ("y" :> "Y") @@ ("z" :> "Z")

LowerChar(c) == IF c \in DOMAIN LowerOf THEN LowerOf[c] ELSE c
UpperChar(c) == IF c \in DOMAIN UpperOf THEN UpperOf[c] ELSE c
IsAlpha(c) == c \in DOMAIN LowerOf \/ c \in DOMAIN UpperOf
IsSpace(c) == c \in {" ", "\n", "\t"}

CharAt(s, i) == SubSeq(s, i, i)

\* the concatenation of parts[lo..hi]
RECURSIVE JoinRange(_, _, _)
JoinRange(parts, lo, hi) ==
    IF lo > hi THEN ""
    ELSE IF lo = hi THEN parts[lo]
    ELSE LET mid == (lo + hi) \div 2
         IN  JoinRange(parts, lo, mid) \o JoinRange(parts, mid + 1, hi)

\* str.lower()
Lower(s) == JoinRange([i \in 1..Len(s) |-> LowerChar(CharAt(s, i))], 1, Len(s))

\* str.strip()
Strip(s) ==
    LET kept == {i \in 1..Len(s) : ~IsSpace(CharAt(s, i))}
    IN  IF Len(s) = 0 THEN ""
        ELSE IF ~IsSpace(CharAt(s, 1)) /\ ~IsSpace(CharAt(s, Len(s))) THEN s
        ELSE IF kept = {} THEN ""
        ELSE SubSeq(s, CHOOSE i \in kept : \A j \in kept : i <= j,
                       CHOOSE i \in kept : \A j \in kept : j <= i)

\* str.title(): a letter is upper-cased after a non-letter, lower-cased after a letter
Title(s) ==
    JoinRange([i \in 1..Len(s) |->
                  IF i > 1 /\ IsAlpha(CharAt(s, i - 1)) THEN LowerChar(CharAt(s, i))
                  ELSE UpperChar(CharAt(s, i))], 1, Len(s))

\* k in s
Contains(k, s) == \E i \in 1..(Len(s) - Len(k) + 1) : SubSeq(s, i, i + Len(k) - 1) = k

\* sep.join(parts)
RECURSIVE Join(_, _)
Join(parts, sep) == IF Len(parts) = 0 THEN ""
                    ELSE IF Len(parts) = 1 THEN parts[1]
                    ELSE parts[1] \o sep \o Join(Tail(parts), sep)

----------------------------------------------------------------------------
(* Exact fractions *)

RECURSIVE GCD(_, _)
GCD(a, b) == IF b = 0 THEN a ELSE GCD(b, a % b)

Frac(n, d) == LET g == GCD(n, d) IN IF g = 0 THEN <<0, 1>> ELSE <<n \div g, d \div g>>
LCM(a, b) == (a \div GCD(a, b)) * b
FracLeq(x, y) == LET l == LCM(x[2], y[2]) IN x[1] * (l \div x[2]) <= y[1] * (l \div y[2])
FracLess(x, y) == ~FracLeq(y, x)
FracMin(x, y) == IF FracLeq(x, y) THEN x ELSE y
FracAdd(x, y) == LET l == LCM(x[2], y[2]) IN Frac(x[1] * (l \div x[2]) + y[1] * (l \div y[2]), l)
FracMul(x, y) == LET a == Frac(x[1], y[2])
                     b == Frac(y[1], x[2])
                 IN  Frac(a[1] * b[1], a[2] * b[2])

\* min(score, 1.0) on ten-thousandths
Min(a, b) == IF a <= b THEN a ELSE b

----------------------------------------------------------------------------
(* SymptomSeverityEngine (utils/symptom_severity.py) *)

\* dict.get(key, default) on a function with string keys
Get(d, k, default) == IF k \in DOMAIN d THEN d[k] ELSE default

\* self.severity_weights, in hundredths
severity_weights ==
    ("mild" :> 30) @@ ("moderate" :> 60) @@ ("severe" :> 90) @@ ("critical" :> 100)

DefaultWeight == 50

\* self.symptom_importance, in hundredths
symptom_importance ==
    ("fever" :> (("malaria" :> 90) @@ ("dengue" :> 90) @@ ("typhoid" :> 80)
                 @@ ("common cold" :> 60) @@ ("chicken pox" :> 70)))
 @@ ("headache" :> (("migraine" :> 90) @@ ("hypertension" :> 70)
                 @@ ("common cold" :> 40) @@ ("dengue" :> 60)))
 @@ ("chest pain" :> (("heart attack" :> 95) @@ ("gerd" :> 70) @@ ("bronchial asthma" :> 60)))
 @@ ("abdominal pain" :> (("peptic ulcer disease" :> 90) @@ ("gastroenteritis" :> 80)
                 @@ ("gerd" :> 60)))
 @@ ("breathing difficulty" :> (("bronchial asthma" :> 95) @@ ("pneumonia" :> 90)
                 @@ ("heart attack" :> 80)))
 @@ ("nausea" :> (("gastroenteritis" :> 80) @@ ("migraine" :> 70) @@ ("gerd" :> 60)
                 @@ ("hepatitis a" :> 70)))
 @@ ("vomiting" :> (("gastroenteritis" :> 90) @@ ("migraine" :> 80) @@ ("gerd" :> 70)))
 @@ ("diarrhea" :> (("gastroenteritis" :> 90) @@ ("peptic ulcer disease" :> 60)))
 @@ ("cough" :> (("common cold" :> 80) @@ ("bronchial asthma" :> 80) @@ ("pneumonia" :> 80)))
 @@ ("joint pain" :> (("arthritis" :> 90) @@ ("osteoarthritis" :> 90)))
 @@ ("rash" :> (("allergy" :> 90) @@ ("psoriasis" :> 80) @@ ("chicken pox" :> 90)
                 @@ ("impetigo" :> 80)))

symptom_map ==
    ("head ache" :> "headache") @@ ("stomach pain" :> "abdominal pain")
 @@ ("belly pain" :> "abdominal pain") @@ ("stomach ache" :> "abdominal pain")
 @@ ("shortness of breath" :> "breathing difficulty")
 @@ ("difficulty breathing" :> "breathing difficulty")
 @@ ("breathlessness" :> "breathing difficulty") @@ ("skin rash" :> "rash")
 @@ ("joint ache" :> "joint pain") @@ ("muscle pain" :> "joint pain")
 @@ ("sore throat" :> "throat pain") @@ ("runny nose" :> "nasal congestion")
 @@ ("stuffy nose" :> "nasal congestion")

normalize_symptom_name(symptom) ==
    LET symptom_lower == Strip(Lower(symptom))
    IN  Get(symptom_map, symptom_lower, symptom_lower)

\* duration factor in tenths; `if duration_days:` skips None and 0
DurationFactor(duration_days) ==
    IF duration_days = None \/ duration_days[1] = 0 THEN 10
    ELSE IF duration_days[1] >= 7 THEN 12
    ELSE IF duration_days[1] >= 3 THEN 11
    ELSE IF duration_days[1] <= 1 THEN 9
    ELSE 10

\* base_score * duration_factor, in hundredths
calculate_symptom_score(symptom, severity, duration_days) ==
    (Get(severity_weights, Lower(severity), DefaultWeight) * DurationFactor(duration_days)) \div 10

HighImportance == 70
BoostFactor == <<3, 10>>
\* Faulty variant of BoostShare: the boost may reach half of the base confidence
BoostShare_Half == <<1, 2>>

BoostShare == <<1, 5>>
BoostCap == <<1, 5>>
One == <<1, 1>>

\* disease_relevance of one symptom_scores entry for the disease
Relevance(info, disease) ==
    LET normalized_symptom == normalize_symptom_name(info.symptom)
    IN  IF normalized_symptom \in DOMAIN symptom_importance
        THEN Get(symptom_importance[normalized_symptom], Lower(disease), 0)
        ELSE 0

RECURSIVE Sum(_)
Sum(numbers) == IF Len(numbers) = 0 THEN 0 ELSE Head(numbers) + Sum(Tail(numbers))

RECURSIVE Concat(_)
Concat(lists) == IF Len(lists) = 0 THEN <<>> ELSE Head(lists) \o Concat(Tail(lists))

Map(seq, F(_)) == Tuple([i \in 1..Len(seq) |-> F(seq[i])])
SumOver(seq, F(_)) == Sum(Map(seq, F))
FlatMap(seq, F(_)) == Concat(Map(seq, F))
Select(seq, P(_)) == SelectSeq(seq, P)

Take(seq, n) == SubSeq(seq, 1, Min(n, Len(seq)))

\* Faulty variant of EnhancedMin: the sum is returned without the cap
EnhancedMin_Uncapped(x, cap) == x

EnhancedMin(x, cap) == FracMin(x, cap)

\* base_confidence in ten-thousandths; symptom_scores is the ordered dict as a
\* sequence of [symptom, severity, duration_days, score]
calculate_enhanced_confidence(base_confidence, symptom_scores, disease) ==
    LET Rated(info) == [symptom |-> info.symptom, severity |-> info.severity,
                        score |-> info.score, relevance |-> Relevance(info, disease)]
        rated == Map(symptom_scores, Rated)
        Contribution(info) == info.score * info.relevance
        Rel(info) == info.relevance
        symptom_boost == SumOver(rated, Contribution)
        total_symptom_weight == SumOver(rated, Rel)
        Important(info) == info.relevance > HighImportance
        key == Select(rated, Important)
        Part(info) == info.symptom \o " (" \o info.severity \o ")"
        explanation_parts == Map(key, Part)
        base == Frac(base_confidence, 10000)
        max_boost == FracMin(FracMul(base, BoostShare), BoostCap)
        normalized_boost ==
            IF total_symptom_weight > 0 /\ symptom_boost > 0
            THEN FracMin(FracMul(Frac(symptom_boost, 100 * total_symptom_weight), BoostFactor),
                         max_boost)
            ELSE <<0, 1>>
        enhanced_confidence == EnhancedMin(FracAdd(base, normalized_boost), One)
        explanation ==
            IF Len(key) > 0
            THEN "Enhanced by " \o ToString(Len(key)) \o " key symptom(s): "
                    \o Join(Take(explanation_parts, 3), ", ")
            ELSE "Based on symptom pattern matching"
    IN  <<enhanced_confidence, explanation>>

CriticalAverage == 80
HighAverage == 70
ModerateAverage == 50

\* Faulty variant of RiskLevel: one severe symptom is enough for "high"
RiskLevel_AnySevere(critical_symptoms, severe_symptoms, total, count) ==
    LET AvgAbove(t) == count > 0 /\ total > t * count
    IN  IF critical_symptoms > 0 \/ AvgAbove(CriticalAverage) THEN "critical"
        ELSE IF severe_symptoms > 0 \/ AvgAbove(HighAverage) THEN "high"
        ELSE IF AvgAbove(ModerateAverage) THEN "moderate"
        ELSE "low"

RiskLevel(critical_symptoms, severe_symptoms, total, count) ==
    \* avg_severity > t, with avg_severity = total / count (0 for an empty map)
    LET AvgAbove(t) == count > 0 /\ total > t * count
    IN  IF critical_symptoms > 0 \/ AvgAbove(CriticalAverage) THEN "critical"
        ELSE IF severe_symptoms > 1 \/ AvgAbove(HighAverage) THEN "high"
        ELSE IF severe_symptoms > 0 \/ AvgAbove(ModerateAverage) THEN "moderate"
        ELSE "low"

analyze_symptom_pattern(symptom_scores) ==
    LET Score(info) == info.score
        total_severity_score == SumOver(symptom_scores, Score)
        IsCritical(info) == Lower(info.severity) = "critical"
        IsSevere(info) == Lower(info.severity) = "severe"
        critical_symptoms == Len(Select(symptom_scores, IsCritical))
        severe_symptoms == Len(Select(symptom_scores, IsSevere))
    IN  [risk_level |-> RiskLevel(critical_symptoms, severe_symptoms,
                                  total_severity_score, Len(symptom_scores)),
         total_severity_score |-> total_severity_score,
         average_severity |-> IF Len(symptom_scores) > 0
                              THEN Frac(total_severity_score, 100 * Len(symptom_scores))
                              ELSE <<0, 1>>,
         critical_symptoms_count |-> critical_symptoms,
         severe_symptoms_count |-> severe_symptoms,
         symptom_count |-> Len(symptom_scores)]

----------------------------------------------------------------------------
(* Ordered dicts: a dict is a sequence of <<key, value>> in insertion order *)

HasKey(d, k) == \E i \in 1..Len(d) : d[i][1] = k
DictGet(d, k, default) == IF HasKey(d, k) THEN d[CHOOSE i \in 1..Len(d) : d[i][1] = k][2]
                          ELSE default
\* d[k] = v: an existing key keeps its position
DictSet(d, k, v) == IF HasKey(d, k)
                    THEN Tuple([i \in 1..Len(d) |-> IF d[i][1] = k THEN <<k, v>> ELSE d[i]])
                    ELSE Append(d, <<k, v>>)
Keys(d) == Tuple([i \in 1..Len(d) |-> d[i][1]])
InSeq(x, seq) == \E i \in 1..Len(seq) : seq[i] = x

\* list(set(items)): the distinct items (here in order of first occurrence)
Distinct(items) ==
    LET First(i) == \A j \in 1..(i - 1) : items[j] # items[i]
        firsts == SelectSeq([i \in 1..Len(items) |-> i], First)
    IN  Tuple([k \in 1..Len(firsts) |-> items[firsts[k]]])

----------------------------------------------------------------------------
(* Regular expressions of the disease extractors *)

RECURSIVE Reverse(_)
Reverse(items) == IF Len(items) = 0 THEN <<>> ELSE Reverse(Tail(items)) \o <<Head(items)>>

\* list(set(items)): the distinct items in the order the process's hash seed gives
\* them; the seeds stand for an order and its reverse
HashSeeds == {"forward", "reverse"}
SetOrder(items, seed) ==
    IF seed = "forward" THEN Distinct(items) ELSE Reverse(Distinct(items))
\* the seeds a process over the tables data can tell apart: without medicine rows
\* no set of more than one element is ever listed
SeedsOf(data) == IF data.medicine_data = <<>> THEN {"forward"} ELSE HashSeeds

NotCommaNewline(c) == c \notin {",", "\n"}
AlphaOrSpace(c) == IsAlpha(c) \/ IsSpace(c)

Least(S) == CHOOSE m \in S : \A n \in S : m <= n
Greatest(S) == CHOOSE m \in S : \A n \in S : n <= m

\* first and last place of the run of InClass characters around place i
RunStart(text, InClass(_), i, from) ==
    Greatest({k \in from..i : k = from \/ ~InClass(CharAt(text, k - 1))})
RunEnd(text, InClass(_), i) ==
    Least({e \in i..Len(text) : e = Len(text) \/ ~InClass(CharAt(text, e + 1))})

\* the places k where word occurs in lower: lower[k .. k + Len(word) - 1] = word
Occurrences(word, lower) ==
    {k \in 1..(Len(lower) - Len(word) + 1) : SubSeq(lower, k, k + Len(word) - 1) = word}

\* non-overlapping matches of prefix + '([^,\n]+)' from place i on, left to
\* right; at is the set of places where the prefix occurs
RECURSIVE MatchesAfter(_, _, _, _)
MatchesAfter(prefix, text, at, i) ==
    LET starts == {k \in at : k >= i /\ k + Len(prefix) <= Len(text)
                                 /\ NotCommaNewline(CharAt(text, k + Len(prefix)))}
    IN  IF starts = {} THEN <<>>
        ELSE LET start == Least(starts) + Len(prefix)
                 e == RunEnd(text, NotCommaNewline, start)
             IN  <<SubSeq(text, start, e)>> \o MatchesAfter(prefix, text, at, e + 1)

\* re.findall(prefix + '([^,\n]+)', text, re.IGNORECASE)
FindAllAfter(prefix, text) == MatchesAfter(prefix, text, Occurrences(prefix, Lower(text)), 1)

\* non-overlapping matches of '([a-zA-Z\s]+)' + suffix from place i on; at is
\* the set of places where the suffix occurs.  The leftmost start wins, and
\* the greedy group ends at the last place of its run that the suffix follows
RECURSIVE MatchesBefore(_, _, _, _)
MatchesBefore(suffix, text, at, i) ==
    LET ends == {j \in i..Len(text) : (j + 1) \in at /\ AlphaOrSpace(CharAt(text, j))}
    IN  IF ends = {} THEN <<>>
        ELSE LET k == RunStart(text, AlphaOrSpace, Least(ends), i)
                 e == RunEnd(text, AlphaOrSpace, k)
                 j == Greatest({m \in ends : m <= e})
             IN  <<SubSeq(text, k, j)>> \o MatchesBefore(suffix, text, at, j + Len(suffix) + 1)

\* re.findall('([a-zA-Z\s]+)' + suffix, text, re.IGNORECASE)
FindAllBefore(suffix, text) == MatchesBefore(suffix, text, Occurrences(suffix, Lower(text)), 1)

condition_keywords ==
    <<"cancer", "infection", "pain", "fever", "headache", "nausea", "vomiting",
      "diarrhea", "constipation", "cough", "cold", "flu", "asthma", "allergy",
      "diabetes", "hypertension", "depression", "anxiety", "arthritis">>

_extract_conditions_from_text(text, seed) ==
    IF text = "" \/ text = "nan" THEN <<>>
    ELSE LET treatment_matches == Map(FindAllAfter("treatment of ", text), Strip)
             InText(keyword) == Contains(keyword, text)
         IN  SetOrder(treatment_matches \o Select(condition_keywords, InText), seed)

MinDiseaseLen == 3
MaxDiseaseLen == 50

_extract_diseases_from_uses(uses_text, seed) ==
    IF uses_text = "" \/ uses_text = "nan" THEN <<>>
    ELSE LET diseases == Map(FindAllAfter("treatment of ", uses_text), Strip)
                      \o Map(FindAllBefore(" treatment", uses_text), Strip)
                      \o Map(FindAllAfter("prevention of ", uses_text), Strip)
             Reasonable(disease) == Len(disease) > MinDiseaseLen /\ Len(disease) < MaxDiseaseLen
         IN  SetOrder(Map(Select(diseases, Reasonable), Title), seed)

----------------------------------------------------------------------------
(* Catalog tables (data_loader).  A table is None or Some(rows). *)

MedicineRows ==
    <<[name |-> "Pantocid",
       uses |-> "Treatment of GERD, Peptic ulcer treatment",
       side_effects |-> "Headache, Nausea, Abdominal pain, Dizziness"],
      [name |-> "Dolo",
       uses |-> "Pain relief Treatment of Fever",
       side_effects |-> "Stomach pain Nausea Vomiting"]>>

PrecautionRows ==
    <<[disease |-> "GERD", precautions |-> <<"avoid spicy food", " sleep upright ">>],
      [disease |-> "Peptic ulcer diseae", precautions |-> <<"eat probiotics", " ">>],
      [disease |-> " Common Cold", precautions |-> <<"take vapour">>]>>

FullCatalog == [medicine_data |-> Some(MedicineRows), precaution_data |-> Some(PrecautionRows)]
PrecautionOnlyCatalog == [medicine_data |-> None, precaution_data |-> Some(PrecautionRows)]
EmptyCatalog == [medicine_data |-> None, precaution_data |-> None]

Catalogs == {FullCatalog, EmptyCatalog}

MedicineUseConfidence == 70
DirectDiseaseConfidence == 100

\* mapping[key].append(info): the mapping is an ordered dict key -> list of infos
RECURSIVE AppendAll(_, _, _)
AppendAll(mapping, entries, i) ==
    IF i > Len(entries) THEN mapping
    ELSE LET key == entries[i][1]
         IN  AppendAll(DictSet(mapping, key, Append(DictGet(mapping, key, <<>>), entries[i][2])),
                       entries, i + 1)

_build_symptom_mapping(data, seed) ==
    LET FromMedicine(row) ==
            LET conditions == _extract_conditions_from_text(Lower(row.uses), seed)
            IN  Tuple([i \in 1..Len(conditions) |->
                    <<conditions[i], [source |-> "medicine_use", name |-> row.name,
                                      confidence |-> MedicineUseConfidence]>>])
        FromPrecaution(row) ==
            LET disease == Strip(Lower(row.disease))
            IN  IF disease # ""
                THEN << <<disease, [source |-> "direct_disease", name |-> row.disease,
                                    confidence |-> DirectDiseaseConfidence]>> >>
                ELSE <<>>
        medicine == IF data.medicine_data # None
                    THEN FlatMap(data.medicine_data[1], FromMedicine) ELSE <<>>
        precaution == IF data.precaution_data # None
                      THEN FlatMap(data.precaution_data[1], FromPrecaution) ELSE <<>>
    IN  AppendAll(<<>>, medicine \o precaution, 1)

----------------------------------------------------------------------------
(* Pattern matcher: the three signals of DiagnosisEngine.diagnose *)

\* fuzz.partial_ratio(s1, s2): 100 for equal strings, 0 when one is empty, 100
\* when the shorter occurs in the longer; any other score is the library's,
\* given by the call's environment: fuzz = [default, by_key]
partial_ratio(s1, s2, fuzz) ==
    IF s1 = s2 THEN 100
    ELSE IF s1 = "" \/ s2 = "" THEN 0
    ELSE IF (Len(s1) <= Len(s2) /\ Contains(s1, s2)) \/ (Len(s2) < Len(s1) /\ Contains(s2, s1))
    THEN 100
    ELSE DictGet(fuzz.by_key, s2, fuzz.default)

FuzzyThreshold == 60
KeywordScore == 80
SideEffectScore == 30

keyword_disease_map ==
    << <<"headache", <<"Migraine", "Hypertension", "Common Cold">> >>,
       <<"fever", <<"Malaria", "Dengue", "Typhoid", "Common Cold", "Chicken pox">> >>,
       <<"nausea", <<"GERD", "Gastroenteritis", "Migraine", "Hepatitis A">> >>,
       <<"vomiting", <<"Gastroenteritis", "GERD", "Migraine">> >>,
       <<"diarrhea", <<"Gastroenteritis", "Peptic ulcer disease">> >>,
       <<"cough", <<"Common Cold", "Bronchial Asthma", "Pneumonia">> >>,
       <<"pain", <<"Arthritis", "Peptic ulcer disease">> >>,
       <<"rash", <<"Allergy", "Psoriasis", "Chicken pox", "Impetigo">> >>,
       <<"breathing", <<"Bronchial Asthma", "Pneumonia", "Heart attack">> >>,
       <<"chest pain", <<"Heart attack", "GERD">> >>,
       <<"joint pain", <<"Arthritis", "Osteoarthritis">> >>,
       <<"abdominal pain", <<"Peptic ulcer disease", "Gastroenteritis">> >>,
       <<"back pain", <<"Osteoarthritis", "Cervical spondylosis">> >> >>

\* disease_scores[disease] = disease_scores.get(disease, 0) + score, for each pair
RECURSIVE AddScores(_, _, _)
AddScores(scores, pairs, i) ==
    IF i > Len(pairs) THEN scores
    ELSE AddScores(DictSet(scores, pairs[i][1], DictGet(scores, pairs[i][1], 0) + pairs[i][2]),
                   pairs, i + 1)

\* Method 1: fuzzy match of every symptom against every mapping key; only the
\* direct_disease entries of a matching key score
DirectMatches(symptoms, mapping, fuzz) ==
    LET lowered == Map(symptoms, Lower)
        OfKey(entry) ==
            LET OfSymptom(symptom) ==
                    LET similarity == partial_ratio(symptom, entry[1], fuzz)
                        OfInfo(info) ==
                            IF info.source = "direct_disease"
                            THEN << <<info.name, (similarity * info.confidence) \div 100>> >>
                            ELSE <<>>
                    IN  IF similarity > FuzzyThreshold THEN FlatMap(entry[2], OfInfo) ELSE <<>>
            IN  FlatMap(lowered, OfSymptom)
    IN  FlatMap(mapping, OfKey)

\* Faulty variant of KeywordMatches: a keyword has to be the whole symptom
KeywordMatches_Exact(symptoms) ==
    LET lowered == Map(symptoms, Lower)
        OfKeyword(entry) ==
            IF \E i \in 1..Len(lowered) : entry[1] = lowered[i]
            THEN Tuple([j \in 1..Len(entry[2]) |-> <<entry[2][j], KeywordScore>>])
            ELSE <<>>
    IN  FlatMap(keyword_disease_map, OfKeyword)

\* Method 2: keyword table
KeywordMatches(symptoms) ==
    LET lowered == Map(symptoms, Lower)
        OfKeyword(entry) ==
            IF \E i \in 1..Len(lowered) : Contains(entry[1], lowered[i])
            THEN Tuple([j \in 1..Len(entry[2]) |-> <<entry[2][j], KeywordScore>>])
            ELSE <<>>
    IN  FlatMap(keyword_disease_map, OfKeyword)

\* Method 3: a symptom among a medicine's side effects scores the diseases it treats
SideEffectMatches(symptoms, data, seed) ==
    LET lowered == Map(symptoms, Lower)
        OfRow(row) ==
            LET side_effects == Lower(row.side_effects)
                Matches(symptom) == Contains(symptom, side_effects)
                symptom_match_score == SideEffectScore * Len(Select(lowered, Matches))
                diseases_treated == _extract_diseases_from_uses(Lower(row.uses), seed)
            IN  IF symptom_match_score > 0
                THEN Tuple([j \in 1..Len(diseases_treated) |->
                               <<diseases_treated[j], symptom_match_score>>])
                ELSE <<>>
    IN  IF data.medicine_data # None THEN FlatMap(data.medicine_data[1], OfRow) ELSE <<>>

\* disease_scores: ordered dict display name -> raw score in hundredths
PatternScores(symptoms, mapping, data, fuzz, seed) ==
    AddScores(<<>>, DirectMatches(symptoms, mapping, fuzz)
                    \o KeywordMatches(symptoms)
                    \o SideEffectMatches(symptoms, data, seed), 1)

----------------------------------------------------------------------------
(* MLDiagnosisModel (ml_diagnosis): lazy load/train and prediction.         *)
(* The library outcomes of one call are its environment env:               *)
(*   load_ok   joblib.load succeeds on the three artifacts                 *)
(*   train_ok  fitting, splitting and scoring succeed                      *)
(*   saved     how many artifacts joblib.dump writes before it fails (3:   *)
(*             all)                                                        *)
(*   proba     None when transform/predict_proba raises, else              *)
(*             Some(<<class, probability>> per class, in class order)      *)

ArtifactFiles == <<"vectorizer.pkl", "classifier.pkl", "label_encoder.pkl">>
AllArtifacts == {ArtifactFiles[i] : i \in 1..Len(ArtifactFiles)}

\* save_model: dumps in order, an error is caught and printed
save_model(ml, env) ==
    IF ~ml.is_trained THEN ml
    ELSE [ml EXCEPT !.artifacts = @ \cup {ArtifactFiles[i] : i \in 1..env.saved}]

\* load_model: [ok, ml]
load_model(ml, env) ==
    IF ~(AllArtifacts \subseteq ml.artifacts) THEN [ok |-> FALSE, ml |-> ml]
    ELSE IF env.load_ok THEN [ok |-> TRUE, ml |-> [ml EXCEPT !.is_trained = TRUE]]
    ELSE [ok |-> FALSE, ml |-> ml]

\* train_model(save_model=True): [raised, ml]
train_model(ml, env) ==
    IF ~env.train_ok THEN [raised |-> TRUE, ml |-> ml]
    ELSE [raised |-> FALSE, ml |-> save_model([ml EXCEPT !.is_trained = TRUE], env)]

MinMLConfidence == 5
TopK == 5

\* np.argsort(probabilities)[-top_k:][::-1]: descending, equal values by
\* descending index
TopIndices(probabilities, top_k) ==
    LET n == Len(probabilities)
        Before(i, j) == \/ probabilities[i][2] > probabilities[j][2]
                        \/ probabilities[i][2] = probabilities[j][2] /\ i > j
        Rank(i) == Cardinality({j \in 1..n : Before(j, i)})
        order == Tuple([r \in 1..n |-> CHOOSE i \in 1..n : Rank(i) = r - 1])
    IN  Take(order, top_k)

\* Faulty variant of Ensure: the is_trained test is missing, every call loads again
Ensure_Reloading(ml, env) ==
    LET Trained(t) == [raised |-> t.raised, ml |-> t.ml, steps |-> <<"load", "train">>]
        Loaded(loaded) ==
            IF loaded.ok THEN [raised |-> FALSE, ml |-> loaded.ml, steps |-> <<"load">>]
            ELSE Trained(train_model(loaded.ml, env))
    IN  Loaded(load_model(ml, env))

Ensure(ml, env) ==
    \* if not self.is_trained: if not self.load_model(): self.train_model()
    \* steps: what the call did to get a model, in order
    IF ml.is_trained THEN [raised |-> FALSE, ml |-> ml, steps |-> <<>>]
    ELSE LET Trained(t) == [raised |-> t.raised, ml |-> t.ml, steps |-> <<"load", "train">>]
             Loaded(loaded) ==
                 IF loaded.ok THEN [raised |-> FALSE, ml |-> loaded.ml, steps |-> <<"load">>]
                 ELSE Trained(train_model(loaded.ml, env))
         IN  Loaded(load_model(ml, env))

\* predict_disease(symptoms, top_k): [raised, ml, predictions, steps]
predict_disease(ml, symptoms, top_k, env) ==
    LET ready == Ensure(ml, env) IN
    IF ready.raised \/ env.proba = None
    THEN [raised |-> TRUE, ml |-> ready.ml, predictions |-> <<>>, steps |-> ready.steps]
    ELSE LET probabilities == env.proba[1]
             top_indices == TopIndices(probabilities, top_k)
             Confident(idx) == probabilities[idx][2] > MinMLConfidence
             Prediction(idx) == [disease |-> Title(probabilities[idx][1]),
                                 confidence |-> probabilities[idx][2],
                                 method |-> "machine_learning"]
         IN  [raised |-> FALSE, ml |-> ready.ml,
              predictions |-> Map(Select(top_indices, Confident), Prediction),
              steps |-> ready.steps]

----------------------------------------------------------------------------
(* DiagnosisEngine.diagnose (diagnosis_engine) *)

DefaultScore == 50

\* symptom_scores: ordered dict symptom -> info, as a sequence of infos; a
\* repeated symptom keeps its first position
SymptomScores(symptoms, symptom_severities) ==
    LET Scored(symptom) ==
            LET severity_info == Get(symptom_severities, symptom, <<>>)
                severity == Get(severity_info, "severity", "moderate")
                duration == Get(severity_info, "duration_days", None)
            IN  [symptom |-> symptom, severity |-> severity, duration_days |-> duration,
                 score |-> calculate_symptom_score(symptom, severity, duration)]
        Default(symptom) ==
            [symptom |-> symptom, severity |-> "moderate", duration_days |-> None,
             score |-> DefaultScore]
        distinct == Distinct(symptoms)
    IN  IF DOMAIN symptom_severities # {} THEN Map(distinct, Scored) ELSE Map(distinct, Default)

\* Faulty variant of disease_synonyms: the value of "mi" is itself a key
disease_synonyms_Chained ==
    ("gerd" :> "gastroesophageal reflux disease")
 @@ ("copd" :> "chronic obstructive pulmonary disease")
 @@ ("htn" :> "hypertension")
 @@ ("dm" :> "diabetes mellitus")
 @@ ("mi" :> "htn")
 @@ ("peptic ulcer diseae" :> "peptic ulcer disease")
 @@ ("osteoarthristis" :> "osteoarthritis")

disease_synonyms ==
    ("gerd" :> "gastroesophageal reflux disease")
 @@ ("copd" :> "chronic obstructive pulmonary disease")
 @@ ("htn" :> "hypertension")
 @@ ("dm" :> "diabetes mellitus")
 @@ ("mi" :> "myocardial infarction")
 @@ ("peptic ulcer diseae" :> "peptic ulcer disease")
 @@ ("osteoarthristis" :> "osteoarthritis")

\* Faulty variant of canonicalize_disease: surrounding whitespace is kept
canonicalize_disease_Unstripped(disease_name) ==
    LET canonical == Lower(disease_name)
    IN  Get(disease_synonyms, canonical, canonical)

canonicalize_disease(disease_name) ==
    LET canonical == Strip(Lower(disease_name))
    IN  Get(disease_synonyms, canonical, canonical)

\* Faulty variant of TryPredict: no except clause, the exception leaves diagnose
TryPredict_Uncaught(ml, symptoms, env) ==
    LET r == predict_disease(ml, symptoms, TopK, env)
    IN  [raised |-> r.raised, failed |-> r.raised, ml |-> r.ml, predictions |-> r.predictions,
         steps |-> r.steps]

\* try: ml_predictions = predict_disease(symptoms, top_k=5)
\* except Exception: ml_predictions = []
\* raised: the exception leaves diagnose; failed: the classifier raised
TryPredict(ml, symptoms, env) ==
    LET r == predict_disease(ml, symptoms, TopK, env)
    IN  [raised |-> FALSE, failed |-> r.raised, ml |-> r.ml, predictions |-> r.predictions,
         steps |-> r.steps]

\* canonical_scores and display_names after the pattern results:
\* [scores: ordered dict canonical -> ten-thousandths, names: canonical -> display]
RECURSIVE MergePattern(_, _, _)
MergePattern(acc, disease_scores, i) ==
    IF i > Len(disease_scores) THEN acc
    ELSE LET disease == disease_scores[i][1]
             canonical == canonicalize_disease(disease)
             normalized_score == 100 * Min(disease_scores[i][2], 100)
         IN  MergePattern([scores |-> DictSet(acc.scores, canonical,
                                       DictGet(acc.scores, canonical, 0) + normalized_score),
                           names |-> DictSet(acc.names, canonical, disease)],
                          disease_scores, i + 1)

MLWeight == 6
PatternWeight == 4

\* weighted combination, in ten-thousandths (ml_confidence is in hundredths)
Combine(pattern_score, ml_confidence) ==
    (PatternWeight * pattern_score + MLWeight * 100 * ml_confidence) \div 10
MLOnly(ml_confidence) == (MLWeight * 100 * ml_confidence) \div 10

RECURSIVE MergeML(_, _, _)
MergeML(acc, ml_predictions, i) ==
    IF i > Len(ml_predictions) THEN acc
    ELSE LET pred == ml_predictions[i]
             canonical == canonicalize_disease(pred.disease)
         IN  MergeML(IF HasKey(acc.scores, canonical)
                     THEN [acc EXCEPT !.scores = DictSet(@, canonical,
                                          Combine(DictGet(@, canonical, 0), pred.confidence))]
                     ELSE [scores |-> DictSet(acc.scores, canonical, MLOnly(pred.confidence)),
                           names |-> DictSet(acc.names, canonical, pred.disease)],
                     ml_predictions, i + 1)

\* sorted(items, key=score, reverse=True): stable, equal scores keep their order
SortedByScore(items) ==
    LET n == Len(items)
        Before(i, j) == items[i][2] > items[j][2] \/ (items[i][2] = items[j][2] /\ i < j)
        Rank(i) == Cardinality({j \in 1..n : Before(j, i)})
    IN  Tuple([r \in 1..n |-> items[CHOOSE i \in 1..n : Rank(i) = r - 1]])

PrecautionThreshold == 80

CleanPrecautions(row) ==
    LET NonBlank(p) == Strip(p) # "" IN Map(Select(row.precautions, NonBlank), Strip)

\* exact match on the lower-cased name, then process.extractOne: the library's
\* best match is the call's fuzz.best row with score fuzz.wratio
_get_disease_precautions(disease, data, fuzz) ==
    IF data.precaution_data = None THEN <<>>
    ELSE LET rows == data.precaution_data[1]
             lowered == Lower(disease)
             Exact(row) == Lower(row.disease) = lowered
             exact_match == Select(rows, Exact)
         IN  IF Len(exact_match) > 0 THEN CleanPrecautions(exact_match[1])
             ELSE IF Len(rows) > 0 /\ fuzz.wratio > PrecautionThreshold
             THEN LET matched_disease == rows[Min(fuzz.best, Len(rows))].disease
                      Same(row) == row.disease = matched_disease
                  IN  CleanPrecautions(Select(rows, Same)[1])
             ELSE <<>>

\* Faulty variant of Method: the classifier is tested first, "hybrid" is never reported
Method_ClassifierFirst(canonical_disease, ml_canonical_names, pattern_canonical_names) ==
    IF InSeq(canonical_disease, ml_canonical_names) THEN "machine_learning"
    ELSE "pattern_matching"

Method(canonical_disease, ml_canonical_names, pattern_canonical_names) ==
    IF InSeq(canonical_disease, ml_canonical_names)
       /\ InSeq(canonical_disease, pattern_canonical_names)
    THEN "hybrid"
    ELSE IF InSeq(canonical_disease, ml_canonical_names) THEN "machine_learning"
    ELSE "pattern_matching"

GenericCold == [disease |-> "Common Cold", confidence |-> <<3, 5>>,
                precautions |-> <<"rest", "drink plenty of fluids",
                                  "consult doctor if symptoms persist">>]
GenericGastro == [disease |-> "Gastroenteritis", confidence |-> <<1, 2>>,
                  precautions |-> <<"stay hydrated", "eat light foods", "rest",
                                    "consult doctor">>]
GenericPain == [disease |-> "General Pain/Inflammation", confidence |-> <<2, 5>>,
                precautions |-> <<"rest", "apply ice/heat", "consult doctor",
                                  "avoid strenuous activity">>]
GenericUnspecified == [disease |-> "Unspecified Condition", confidence |-> <<3, 10>>,
                       precautions |-> <<"consult a healthcare provider", "monitor symptoms",
                                         "rest", "stay hydrated">>]

AnyWord(words, text) == \E w \in words : Contains(w, text)

_get_generic_diagnosis(symptoms) ==
    LET symptom_text == Lower(Join(symptoms, " "))
        generic_results ==
            (IF AnyWord({"fever", "headache", "body ache"}, symptom_text)
             THEN <<GenericCold>> ELSE <<>>)
         \o (IF AnyWord({"stomach", "abdominal", "nausea", "vomiting"}, symptom_text)
             THEN <<GenericGastro>> ELSE <<>>)
         \o (IF AnyWord({"pain", "ache"}, symptom_text) THEN <<GenericPain>> ELSE <<>>)
    IN  IF Len(generic_results) = 0 THEN <<GenericUnspecified>> ELSE generic_results

EnrichLimit == 7
ResultLimit == 5

\* sorted_diseases[:7]
Candidates(sorted_diseases) == Take(sorted_diseases, EnrichLimit)
\* Faulty variant of Truncate: the slice is missing, all enriched entries are returned
Truncate_Missing(results_list) == results_list

\* results[:5]
Truncate(results_list) == Take(results_list, ResultLimit)

\* Faulty variant of Fallback: an empty list is returned as it is
Fallback_Missing(results_list, symptoms) == results_list

\* if not results: results = self._get_generic_diagnosis(symptoms)
Fallback(results_list, symptoms) ==
    IF Len(results_list) = 0 THEN _get_generic_diagnosis(symptoms) ELSE results_list

\* for canonical_disease, score in sorted_diseases[:7]: one entry of results
Enrich(item, names, symptom_scores, ml_canonical_names, pattern_canonical_names, analysis, data, fuzz) ==
    LET Entry(display_disease, base_confidence) ==
            LET Built(enhanced) ==
                    [disease |-> display_disease,
                     confidence |-> enhanced[1],
                     base_confidence |-> base_confidence,
                     explanation |-> enhanced[2],
                     method |-> Method(item[1], ml_canonical_names, pattern_canonical_names),
                     precautions |-> _get_disease_precautions(display_disease, data, fuzz),
                     symptom_analysis |-> analysis]
            IN  Built(calculate_enhanced_confidence(base_confidence, symptom_scores,
                                                    display_disease))
    IN  Entry(DictGet(names, item[1], Title(item[1])), Min(item[2], 10000))

\* The call from the merge on, given what the three sources produced
Aggregate(symptoms, data, env, symptom_scores, disease_scores, predicted) ==
    LET Ranked(merged, pattern_scores, ml_canonical_names, pattern_canonical_names, analysis) ==
            LET Item(item) == Enrich(item, merged.names, symptom_scores, ml_canonical_names,
                                     pattern_canonical_names, analysis, data, env.fuzz)
            IN  [raised |-> FALSE, ml |-> predicted.ml,
                 results |-> Fallback(Truncate(Map(Candidates(SortedByScore(merged.scores)),
                                                   Item)),
                                      symptoms),
                 attempted |-> TRUE,
                 symptom_scores |-> symptom_scores, disease_scores |-> disease_scores,
                 ml_predictions |-> predicted.predictions,
                 ml_failed |-> predicted.failed,
                 pattern_scores |-> pattern_scores,
                 canonical_scores |-> merged.scores,
                 ml_canonical_names |-> ml_canonical_names,
                 pattern_canonical_names |-> pattern_canonical_names,
                 ml_steps |-> predicted.steps]
        Canonical(pred) == canonicalize_disease(pred.disease)
        \* pattern: canonical_scores and display_names before the ML predictions
        FromPattern(pattern) ==
            Ranked(MergeML(pattern, predicted.predictions, 1),
                   pattern.scores,
                   Map(predicted.predictions, Canonical),
                   Map(Keys(disease_scores), canonicalize_disease),
                   analyze_symptom_pattern(symptom_scores))
    IN  IF predicted.raised
        THEN [raised |-> TRUE, ml |-> predicted.ml, results |-> <<>>, attempted |-> TRUE,
              symptom_scores |-> symptom_scores, disease_scores |-> disease_scores,
              ml_predictions |-> <<>>, ml_failed |-> TRUE, pattern_scores |-> <<>>,
              canonical_scores |-> <<>>,
              ml_canonical_names |-> <<>>, pattern_canonical_names |-> <<>>,
              ml_steps |-> predicted.steps]
        ELSE FromPattern(MergePattern([scores |-> <<>>, names |-> <<>>], disease_scores, 1))

\* Faulty variant of Attempt: the test for an empty symptom list is missing
Attempt_Unguarded(ml, symptoms, symptom_severities, data, env, disease_scores) ==
    Aggregate(symptoms, data, env,
              SymptomScores(symptoms, symptom_severities),
              disease_scores,
              TryPredict(ml, symptoms, env))

\* The call, given the disease_scores its three pattern signals produce if it gets
\* that far: what it returns and the locals it computed on the way
Attempt(ml, symptoms, symptom_severities, data, env, disease_scores) ==
    IF Len(symptoms) = 0
    THEN [raised |-> FALSE, ml |-> ml, results |-> <<>>, attempted |-> FALSE,
          symptom_scores |-> <<>>, disease_scores |-> <<>>, ml_predictions |-> <<>>,
          ml_failed |-> FALSE, pattern_scores |-> <<>>, canonical_scores |-> <<>>,
          ml_canonical_names |-> <<>>, pattern_canonical_names |-> <<>>,
          ml_steps |-> <<>>]
    ELSE Aggregate(symptoms, data, env,
                   SymptomScores(symptoms, symptom_severities),
                   disease_scores,
                   TryPredict(ml, symptoms, env))

\* The whole call
diagnose(ml, symptoms, symptom_severities, mapping, data, env) ==
    Attempt(ml, symptoms, symptom_severities, data, env,
            PatternScores(symptoms, mapping, data, env.fuzz, env.hash_seed))

----------------------------------------------------------------------------
(* Inputs and library outcomes the calls are drawn from *)

MaxSymptoms == 2

SymptomVocabulary ==
    <<"mild headache", "severe chest pain", "abdominal pain", "Dizziness", "body ache", "Fever">>

\* symptom lists of up to MaxSymptoms entries, written in vocabulary order
\* (an entry may repeat)
SymptomLists ==
    LET Indices == UNION {[1..n -> 1..Len(SymptomVocabulary)] : n \in 0..MaxSymptoms}
        Ordered(idx) == \A i \in 1..(Len(idx) - 1) : idx[i] <= idx[i + 1]
    IN  {[i \in 1..Len(idx) |-> SymptomVocabulary[idx[i]]] : idx \in {x \in Indices : Ordered(x)}}

SeverityInfos ==
    {[severity |-> "mild", duration_days |-> Some(1)],
     [severity |-> "critical", duration_days |-> Some(1)],
     [severity |-> "Severe", duration_days |-> None]}

\* the severities maps of a call: none (the empty map stands for both {} and an
\* omitted argument), or one severity for every symptom, or for the first only
SeverityMaps(symptoms) ==
    LET all == {symptoms[i] : i \in 1..Len(symptoms)}
        first == IF Len(symptoms) > 0 THEN {{symptoms[1]}} ELSE {}
    IN  {<<>>} \cup UNION {[D -> {info}] : D \in ({all} \cup first) \ {{}}, info \in SeverityInfos}

NoMatchFuzz == [default |-> 45, by_key |-> <<>>, wratio |-> 50, best |-> 1]
FuzzOutcomes(data) ==
    IF data.precaution_data = None THEN {NoMatchFuzz}
    ELSE {NoMatchFuzz,
          [default |-> 60, by_key |-> << <<"gerd", 87>>, <<"common cold", 61>> >>,
           wratio |-> 86, best |-> 2]}

\* classes of the fitted label encoder, in its sorted order
Proba(cold, reflux, gerd, heart, malaria, migraine) ==
    << <<"common cold", cold>>, <<"gastroesophageal reflux disease", reflux>>,
       <<"gerd", gerd>>, <<"heart attack", heart>>, <<"malaria", malaria>>,
       <<"migraine", migraine>> >>

ProbaOutcomes ==
    {None,
     Some(Proba(30, 3, 10, 2, 0, 55)),
     Some(Proba(5, 40, 35, 20, 0, 0)),
     Some(Proba(5, 5, 5, 5, 5, 5))}

\* joblib.dump fails before the first file, after it, or not at all
SavedOutcomes == {0, 1, Len(ArtifactFiles)}
\* a lazy training inside diagnose writes every artifact or none
LazySavedOutcomes == {0, Len(ArtifactFiles)}
\* what predict_proba gives after a training whose artifacts were all written
SavedProbaOutcomes == {None, Some(Proba(30, 3, 10, 2, 0, 55))}

\* the library outcomes that matter in the model state ml
MLEnvs(ml) ==
    IF ml.is_trained
    THEN {[load_ok |-> TRUE, train_ok |-> TRUE, saved |-> 0, proba |-> p] : p \in ProbaOutcomes}
    ELSE {[load_ok |-> FALSE, train_ok |-> TRUE, saved |-> n, proba |-> p] :
              n \in LazySavedOutcomes \ {Len(ArtifactFiles)}, p \in ProbaOutcomes}
         \cup {[load_ok |-> FALSE, train_ok |-> TRUE, saved |-> Len(ArtifactFiles),
                 proba |-> p] : p \in SavedProbaOutcomes}
         \cup {[load_ok |-> FALSE, train_ok |-> FALSE, saved |-> 0, proba |-> None]}
         \cup (IF AllArtifacts \subseteq ml.artifacts
               THEN {[load_ok |-> TRUE, train_ok |-> TRUE, saved |-> 0, proba |-> p] :
                         p \in ProbaOutcomes}
               ELSE {})

----------------------------------------------------------------------------
(* The state machine *)

Model == [is_trained |-> is_trained, artifacts |-> artifacts]

Init ==
    /\ catalog \in Catalogs
    /\ hash_seed \in SeedsOf(catalog)
    /\ symptom_disease_mapping = _build_symptom_mapping(catalog, hash_seed)
    /\ is_trained = FALSE
    /\ artifacts = {}
    /\ phase = "idle"
    /\ call = None
    /\ results = <<>>

\* One diagnose(symptoms, symptom_severities) call, start to return
Diagnose ==
    /\ phase = "idle"
    /\ \E symptoms \in SymptomLists :
       \E fuzz \in FuzzOutcomes(catalog) :
       \E disease_scores \in {PatternScores(symptoms, symptom_disease_mapping, catalog, fuzz,
                                             hash_seed)} :
       \E symptom_severities \in SeverityMaps(symptoms) :
       \E mlenv \in MLEnvs(Model) :
       \E d \in {Attempt(Model, symptoms, symptom_severities, catalog,
                          [fuzz |-> fuzz, load_ok |-> mlenv.load_ok,
                           train_ok |-> mlenv.train_ok, saved |-> mlenv.saved,
                           proba |-> mlenv.proba, hash_seed |-> hash_seed],
                          disease_scores)} :
              /\ phase' = IF d.raised THEN "raised" ELSE "returned"
              /\ results' = d.results
              /\ is_trained' = d.ml.is_trained
              /\ artifacts' = d.ml.artifacts
              /\ call' = [symptoms |-> symptoms, symptom_severities |-> symptom_severities,
                          fuzz |-> fuzz, attempted |-> d.attempted,
                          symptom_scores |-> d.symptom_scores,
                          disease_scores |-> d.disease_scores,
                          ml_failed |-> d.ml_failed,
                          ml_predictions |-> d.ml_predictions,
                          pattern_scores |-> d.pattern_scores,
                          canonical_scores |-> d.canonical_scores,
                          ml_canonical_names |-> d.ml_canonical_names,
                          pattern_canonical_names |-> d.pattern_canonical_names,
                          load_ok |-> mlenv.load_ok,
                          ml_steps |-> d.ml_steps]
    /\ UNCHANGED <<catalog, symptom_disease_mapping, hash_seed>>

\* The caller has shown the results; the next request starts from scratch
Complete ==
    /\ phase \in {"returned", "raised"}
    /\ phase' = "idle"
    /\ call' = None
    /\ results' = <<>>
    /\ UNCHANGED <<catalog, symptom_disease_mapping, is_trained, artifacts, hash_seed>>

\* The sidebar's train button: ml_model.train_model() inside try/except
Retrain ==
    /\ phase = "idle"
    /\ \E train_ok \in BOOLEAN, saved \in SavedOutcomes :
          LET t == train_model(Model, [train_ok |-> train_ok, saved |-> saved])
          IN  /\ is_trained' = t.ml.is_trained
              /\ artifacts' = t.ml.artifacts
    /\ UNCHANGED <<catalog, symptom_disease_mapping, phase, call, hash_seed, results>>

\* A new process: a fresh DiagnosisEngine and MLDiagnosisModel under a new hash
\* seed, the files under models/ stay
Restart ==
    /\ phase = "idle"
    /\ is_trained' = FALSE
    /\ hash_seed' \in SeedsOf(catalog)
    /\ symptom_disease_mapping' = _build_symptom_mapping(catalog, hash_seed')
    /\ UNCHANGED <<catalog, artifacts, phase, call, results>>

Next == Diagnose \/ Complete \/ Retrain \/ Restart

Spec == Init /\ [][Next]_vars

----------------------------------------------------------------------------
(* The risk assessment on its own: analyze_symptom_pattern over the maps of   *)
(* symptom scores that callers can build                                     *)

MaxScored == 3

Durations == {None, Some(1), Some(7)}

\* entries as diagnose builds them: scored from a severity and a duration, or
\* the default entry of a call without severities
ScoredInfos ==
    {[symptom |-> "symptom", severity |-> sev, duration_days |-> d,
      score |-> calculate_symptom_score("symptom", sev, d)] :
         sev \in {"mild", "moderate", "severe", "critical"}, d \in Durations}
    \cup {[symptom |-> "symptom", severity |-> "moderate", duration_days |-> None,
           score |-> DefaultScore]}

ScoreMaps == UNION {[1..n -> ScoredInfos] : n \in 0..MaxScored}

InitAnalyze ==
    /\ catalog = EmptyCatalog
    /\ symptom_disease_mapping = <<>>
    /\ hash_seed = "forward"
    /\ is_trained = FALSE
    /\ artifacts = {}
    /\ phase = "idle"
    /\ call = None
    /\ results = <<>>

\* One analyze_symptom_pattern(symptom_scores) call
Analyze ==
    /\ phase = "idle"
    /\ \E symptom_scores \in ScoreMaps :
          call' = [symptom_scores |-> symptom_scores,
                   analysis |-> analyze_symptom_pattern(symptom_scores)]
    /\ phase' = "analyzed"
    /\ UNCHANGED <<catalog, symptom_disease_mapping, is_trained, artifacts, hash_seed, results>>

Discard ==
    /\ phase = "analyzed"
    /\ phase' = "idle"
    /\ call' = None
    /\ UNCHANGED <<catalog, symptom_disease_mapping, is_trained, artifacts, hash_seed, results>>

NextAnalyze == Analyze \/ Discard

SpecAnalyze == InitAnalyze /\ [][NextAnalyze]_vars

----------------------------------------------------------------------------
(* The same request twice: a diagnose call, and later the same call again in *)
(* the same classifier state, in the same process or in a later one          *)

\* the requests that are repeated: one symptom each
RepeatLists == {<<SymptomVocabulary[i]>> : i \in 1..Len(SymptomVocabulary)}

InitRepeat ==
    /\ catalog \in Catalogs
    /\ hash_seed \in SeedsOf(catalog)
    /\ symptom_disease_mapping = _build_symptom_mapping(catalog, hash_seed)
    /\ is_trained = FALSE
    /\ artifacts \in {{}, AllArtifacts}
    /\ phase = "idle"
    /\ call = None
    /\ results = <<>>

\* the libraries are functions: library holds what they answer for this request
\* (the fuzzy scores of its strings, what loading and fitting do, the
\* probabilities of the model that was loaded or fitted)
FirstCall ==
    /\ phase = "idle"
    /\ \E symptoms \in RepeatLists :
       \E symptom_severities \in SeverityMaps(symptoms) :
       \E fuzz \in FuzzOutcomes(catalog) :
       \E mlenv \in MLEnvs(Model) :
       \E d \in {diagnose(Model, symptoms, symptom_severities, symptom_disease_mapping, catalog,
                           [fuzz |-> fuzz, load_ok |-> mlenv.load_ok,
                            train_ok |-> mlenv.train_ok, saved |-> mlenv.saved,
                            proba |-> mlenv.proba, hash_seed |-> hash_seed])} :
              /\ ~d.raised
              /\ phase' = "first"
              /\ results' = d.results
              /\ is_trained' = d.ml.is_trained
              /\ artifacts' = d.ml.artifacts
              /\ call' = [symptoms |-> symptoms, symptom_severities |-> symptom_severities,
                          library |-> [fuzz |-> fuzz, load_ok |-> mlenv.load_ok,
                                       train_ok |-> mlenv.train_ok, saved |-> mlenv.saved,
                                       proba |-> mlenv.proba],
                          before |-> Model, seed |-> hash_seed, first |-> d.results]
    /\ UNCHANGED <<catalog, symptom_disease_mapping, hash_seed>>

\* the process ends and a new one starts
NewProcess ==
    /\ phase = "first"
    /\ is_trained' = FALSE
    /\ hash_seed' \in SeedsOf(catalog)
    /\ symptom_disease_mapping' = _build_symptom_mapping(catalog, hash_seed')
    /\ UNCHANGED <<catalog, artifacts, phase, call, results>>

\* the same symptoms and severities again, the classifier as it was before the
\* first call
SecondCall ==
    /\ phase = "first"
    /\ Model = call.before
    /\ \E d \in {diagnose(Model, call.symptoms, call.symptom_severities,
                           symptom_disease_mapping, catalog,
                           [fuzz |-> call.library.fuzz, load_ok |-> call.library.load_ok,
                            train_ok |-> call.library.train_ok, saved |-> call.library.saved,
                            proba |-> call.library.proba, hash_seed |-> hash_seed])} :
          /\ ~d.raised
          /\ phase' = "second"
          /\ results' = d.results
          /\ is_trained' = d.ml.is_trained
          /\ artifacts' = d.ml.artifacts
    /\ UNCHANGED <<catalog, symptom_disease_mapping, hash_seed, call>>

Forget ==
    /\ phase = "second"
    /\ phase' = "idle"
    /\ call' = None
    /\ results' = <<>>
    /\ UNCHANGED <<catalog, symptom_disease_mapping, is_trained, artifacts, hash_seed>>

NextRepeat == FirstCall \/ NewProcess \/ SecondCall \/ Forget

SpecRepeat == InitRepeat /\ [][NextRepeat]_vars

----------------------------------------------------------------------------
(* MedicationRecommender (utils/medication_recommender.py) *)

\* a call's outcome: the value it returns, or the exception that leaves it
Return(value) == [raised |-> FALSE, value |-> value]
Raise(exception) == [raised |-> TRUE, value |-> exception]

keyword_map ==
    ("Common Cold" :> <<"cold", "respiratory", "cough", "congestion">>)
 @@ ("Migraine" :> <<"headache", "pain", "migraine">>)
 @@ ("Hypertension" :> <<"blood pressure", "hypertension", "cardiac">>)
 @@ ("GERD" :> <<"acid", "reflux", "gastro", "stomach">>)
 @@ ("Gastroenteritis" :> <<"gastro", "stomach", "diarrhea", "nausea">>)
 @@ ("Diabetes" :> <<"diabetes", "blood sugar", "glucose">>)
 @@ ("Asthma" :> <<"asthma", "respiratory", "breathing">>)
 @@ ("Arthritis" :> <<"arthritis", "joint", "inflammation", "pain">>)
 @@ ("Allergy" :> <<"allergy", "allergic", "antihistamine">>)
 @@ ("Infection" :> <<"infection", "bacterial", "antibiotic">>)
 @@ ("Pain" :> <<"pain", "analgesic", "anti-inflammatory">>)

\* str.split(): the maximal runs of non-space characters, in order
SplitWords(s) ==
    LET starts == {i \in 1..Len(s) :
                      ~IsSpace(CharAt(s, i)) /\ (i = 1 \/ IsSpace(CharAt(s, i - 1)))}
        End(i) == Least({e \in i..Len(s) : e = Len(s) \/ IsSpace(CharAt(s, e + 1))})
        Nth(r) == CHOOSE i \in starts : Cardinality({j \in starts : j < i}) = r - 1
    IN  Tuple([r \in 1..Cardinality(starts) |-> SubSeq(s, Nth(r), End(Nth(r)))])

\* the table's keywords for the exact name, then the words of the lower-cased name;
\* list(set(keywords))
_get_disease_keywords(disease, seed) ==
    SetOrder(Get(keyword_map, disease, <<>>) \o SplitWords(Lower(disease)), seed)

RelevanceThreshold == 40
KeywordRelevance == 70
RecommendationLimit == 10

\* medication_info (the fields a caller can tell rows apart by); relevance_score in
\* hundredths
MedicationInfo(row, score) ==
    [name |-> row.name, uses |-> row.uses, side_effects |-> row.side_effects,
     excellent_review |-> row.excellent_review, relevance_score |-> score]

\* method 2: for keyword, for row: a row whose uses has the keyword and whose name
\* is not yet listed is appended
RECURSIVE AddByKeyword(_, _, _, _, _)
AddByKeyword(relevant_medications, disease_keywords, medicine_data, k, i) ==
    IF k > Len(disease_keywords) THEN relevant_medications
    ELSE IF i > Len(medicine_data)
    THEN AddByKeyword(relevant_medications, disease_keywords, medicine_data, k + 1, 1)
    ELSE LET row == medicine_data[i]
             listed == \E m \in 1..Len(relevant_medications) :
                           relevant_medications[m].name = row.name
             matches == Contains(Lower(disease_keywords[k]), Lower(row.uses))
         IN  AddByKeyword(IF matches /\ ~listed
                          THEN Append(relevant_medications,
                                      MedicationInfo(row, KeywordRelevance))
                          ELSE relevant_medications,
                          disease_keywords, medicine_data, k, i + 1)

\* sort(key=(relevance_score, excellent_review), reverse=True): stable, equal keys
\* keep their order
SortedByRelevance(items) ==
    LET n == Len(items)
        Before(i, j) ==
            \/ items[i].relevance_score > items[j].relevance_score
            \/ /\ items[i].relevance_score = items[j].relevance_score
               /\ items[i].excellent_review > items[j].excellent_review
            \/ /\ items[i].relevance_score = items[j].relevance_score
               /\ items[i].excellent_review = items[j].excellent_review
               /\ i < j
        Rank(i) == Cardinality({j \in 1..n : Before(j, i)})
    IN  Tuple([r \in 1..n |-> items[CHOOSE i \in 1..n : Rank(i) = r - 1]])

\* the body of recommend_medications over a table that is there; env.partial holds
\* the library's partial_ratio scores
Recommendations(disease, medicine_data, env) ==
    LET Direct(i) ==
            LET row == medicine_data[i]
                uses == Lower(row.uses)
                score == IF Contains(Lower(disease), uses) THEN 100
                         ELSE partial_ratio(Lower(disease), uses, env.partial)
            IN  IF score > RelevanceThreshold THEN <<MedicationInfo(row, score)>> ELSE <<>>
        direct == FlatMap(Tuple([i \in 1..Len(medicine_data) |-> i]), Direct)
        disease_keywords == _get_disease_keywords(disease, env.hash_seed)
    IN  Take(SortedByRelevance(AddByKeyword(direct, disease_keywords, medicine_data, 1, 1)),
             RecommendationLimit)

\* Faulty variant of recommend_medications: the test for a missing table is
\* missing, iterrows() is called on None
recommend_medications_Unchecked(disease, age, gender, data, env) ==
    IF data.medicine_data = None THEN Raise("AttributeError")
    ELSE Return(Recommendations(disease, data.medicine_data[1], env))

recommend_medications(disease, age, gender, data, env) ==
    IF data.medicine_data = None THEN Return(<<>>)
    ELSE Return(Recommendations(disease, data.medicine_data[1], env))

ChildAge == 12
AdultAge == 18
ElderlyAge == 65

_get_generic_dosage_by_age(age) ==
    IF age < ChildAge THEN "Pediatric dosage - consult pediatrician"
    ELSE IF age < AdultAge THEN "Adolescent dosage - typically 50-75% of adult dose"
    ELSE IF age < ElderlyAge THEN "Standard adult dosage as per medication guidelines"
    ELSE "Elderly dosage - may require reduced dose, consult geriatrician"

\* Faulty variant of DosageThreshold: a similarity of 60 already matches
DosageThreshold_Lower == 60 - 1

DosageThreshold == 60
AgeWindow == 5

\* f"{x:.0f}" of the mean total / count: to the nearest integer, a half to the even
\* one
RoundedMean(total, count) ==
    LET q == total \div count
        r == total % count
    IN  IF 2 * r < count THEN q
        ELSE IF 2 * r > count THEN q + 1
        ELSE IF q % 2 = 0 THEN q ELSE q + 1

\* process.extractOne over the medication types: the library's best match is the
\* call's fuzz.best type with score fuzz.wratio, None for no types
get_age_based_dosage(medicine_name, age, data, fuzz) ==
    IF data.adherence_data = None THEN _get_generic_dosage_by_age(age)
    ELSE LET adherence_data == data.adherence_data[1]
             Type(row) == row.medication_type
             Dosage(row) == row.dosage_mg
             medicine_types == Distinct(Map(adherence_data, Type))
             matched == Len(medicine_types) > 0 /\ fuzz.wratio > DosageThreshold
             med_type == medicine_types[Min(fuzz.best, Len(medicine_types))]
             InGroup(row) == /\ row.medication_type = med_type
                             /\ row.age >= age - AgeWindow
                             /\ row.age <= age + AgeWindow
             Dosed(age_group_data) ==
                 IF Len(age_group_data) > 0
                 THEN ToString(RoundedMean(SumOver(age_group_data, Dosage),
                                           Len(age_group_data)))
                          \o "mg (based on similar patients in your age group)"
                 ELSE _get_generic_dosage_by_age(age)
         IN  IF matched THEN Dosed(Select(adherence_data, InGroup))
             ELSE _get_generic_dosage_by_age(age)

----------------------------------------------------------------------------
(* The lookups on their own: each table missing, without rows, or filled *)

LookupMedicineRows ==
    <<[name |-> "Typhicure", uses |-> "Treatment of Typhoid fever",
       side_effects |-> "Nausea Headache", excellent_review |-> 10],
      [name |-> "Dolo", uses |-> "Fever",
       side_effects |-> "Stomach pain Nausea Vomiting", excellent_review |-> 90],
      [name |-> "Pantocid", uses |-> "Treatment of GERD, Peptic ulcer treatment",
       side_effects |-> "Headache, Nausea, Abdominal pain, Dizziness",
       excellent_review |-> 40]>>

AdherenceRows ==
    <<[medication_type |-> "Paracetamol", age |-> 10, dosage_mg |-> 250],
      [medication_type |-> "Paracetamol", age |-> 40, dosage_mg |-> 500],
      [medication_type |-> "Paracetamol", age |-> 44, dosage_mg |-> 501],
      [medication_type |-> "Pantoprazole", age |-> 64, dosage_mg |-> 40]>>

\* a table: missing, without rows, or with rows
Tables(rows) == {None, Some(<<>>), Some(rows)}

\* the medicine and the precaution table in every combination beside a filled
\* adherence table, and the adherence table missing or without rows beside the filled
\* two
LookupCatalogs ==
    {[medicine_data |-> m, precaution_data |-> p, adherence_data |-> Some(AdherenceRows)] :
        m \in Tables(LookupMedicineRows), p \in Tables(PrecautionRows)}
    \cup {[medicine_data |-> Some(LookupMedicineRows),
           precaution_data |-> Some(PrecautionRows), adherence_data |-> a] :
              a \in Tables(AdherenceRows)}

LookupSymptomLists ==
    {<<>>, <<"abdominal pain">>, <<"Fever">>, <<"mild headache", "Fever">>}

LookupDiseases == {"Typhoid Fever", "GERD", "Migraine", "fever", "Peptic ulcer diseae"}
LookupAges == {5, 11, 12, 17, 18, 42, 64, 65}
LookupMedicines == {"Dolo", "Pantocid"}

\* partial_ratio of the library for a name that is neither in the uses text nor
\* around it: below or above the threshold, for every row or for all but one
PartialScores == {30, 70}
PartialOutcomes ==
    {[default |-> score, by_key |-> by_key] :
        score \in PartialScores,
        by_key \in {<<>>, << <<"treatment of gerd, peptic ulcer treatment", 85>> >>}}

DosageFuzzOutcomes ==
    {[wratio |-> 45, best |-> 1], [wratio |-> 90, best |-> 1], [wratio |-> 75, best |-> 2],
     [wratio |-> 60, best |-> 1]}

InitLookup ==
    /\ catalog \in LookupCatalogs
    /\ hash_seed \in SeedsOf(catalog)
    /\ symptom_disease_mapping = _build_symptom_mapping(catalog, hash_seed)
    /\ is_trained = FALSE
    /\ artifacts = {}
    /\ phase = "idle"
    /\ call = None
    /\ results = <<>>

\* recommend_medications(disease, age, gender), start to return
Recommend ==
    /\ phase = "idle"
    /\ \E disease \in LookupDiseases, partial \in PartialOutcomes :
       \E age \in {42}, gender \in {"Female"} :
       \E r \in {recommend_medications(disease, age, gender, catalog,
                                       [partial |-> partial, hash_seed |-> hash_seed])} :
          /\ phase' = IF r.raised THEN "raised" ELSE "recommended"
          /\ results' = IF r.raised THEN <<>> ELSE r.value
          /\ call' = [disease |-> disease, partial |-> partial]
    /\ UNCHANGED <<catalog, symptom_disease_mapping, is_trained, artifacts, hash_seed>>

\* _get_disease_precautions(disease), start to return
Precautions ==
    /\ phase = "idle"
    /\ \E disease \in LookupDiseases, fuzz \in FuzzOutcomes(catalog) :
          /\ phase' = "precautions"
          /\ results' = _get_disease_precautions(disease, catalog, fuzz)
          /\ call' = [disease |-> disease, fuzz |-> fuzz]
    /\ UNCHANGED <<catalog, symptom_disease_mapping, is_trained, artifacts, hash_seed>>

\* get_age_based_dosage(medicine_name, age), start to return
Dosage ==
    /\ phase = "idle"
    /\ \E medicine_name \in LookupMedicines, age \in LookupAges, fuzz \in DosageFuzzOutcomes :
          /\ phase' = "dosage"
          /\ results' = get_age_based_dosage(medicine_name, age, catalog, fuzz)
          /\ call' = [medicine_name |-> medicine_name, age |-> age, fuzz |-> fuzz]
    /\ UNCHANGED <<catalog, symptom_disease_mapping, is_trained, artifacts, hash_seed>>

\* diagnose(symptoms, symptom_severities) over the same tables, start to return
DiagnoseOverTables ==
    /\ phase = "idle"
    /\ \E symptoms \in LookupSymptomLists :
       \E symptom_severities \in SeverityMaps(symptoms) :
       \E fuzz \in FuzzOutcomes(catalog), mlenv \in MLEnvs(Model) :
       \E d \in {diagnose(Model, symptoms, symptom_severities, symptom_disease_mapping,
                          catalog,
                          [fuzz |-> fuzz, load_ok |-> mlenv.load_ok,
                           train_ok |-> mlenv.train_ok, saved |-> mlenv.saved,
                           proba |-> mlenv.proba, hash_seed |-> hash_seed])} :
          /\ phase' = IF d.raised THEN "raised" ELSE "returned"
          /\ results' = d.results
          /\ is_trained' = d.ml.is_trained
          /\ artifacts' = d.ml.artifacts
          /\ call' = [symptoms |-> symptoms, symptom_severities |-> symptom_severities]
    /\ UNCHANGED <<catalog, symptom_disease_mapping, hash_seed>>

\* The caller has used the answer
Done ==
    /\ phase # "idle"
    /\ phase' = "idle"
    /\ call' = None
    /\ results' = <<>>
    /\ UNCHANGED <<catalog, symptom_disease_mapping, is_trained, artifacts, hash_seed>>

NextLookup == Recommend \/ Precautions \/ Dosage \/ DiagnoseOverTables \/ Done

SpecLookup == InitLookup /\ [][NextLookup]_vars

----------------------------------------------------------------------------
(* The pure functions on their own: canonicalize_disease applied twice, and     *)
(* calculate_symptom_score over severities and durations                      *)

\* every key and every value of the synonym table, and names outside it
PlainNames ==
    DOMAIN disease_synonyms
    \cup {disease_synonyms[k] : k \in DOMAIN disease_synonyms}
    \cup {"migraine", "common cold"}

\* each as it is, title-cased, and with surrounding whitespace; and blank names
DiseaseNames ==
    PlainNames
    \cup {Title(d) : d \in PlainNames}
    \cup {" " \o d \o "\t" : d \in PlainNames}
    \cup {"\n" \o Title(d) \o "  " : d \in PlainNames}
    \cup {"", "  "}

MaxDuration == 8
ScoredSeverities == {"mild", "moderate", "severe", "critical", "Severe", "unknown"}
ScoredDurations == {None} \cup {Some(d) : d \in 0..MaxDuration}

InitPure ==
    /\ catalog = EmptyCatalog
    /\ hash_seed = "forward"
    /\ symptom_disease_mapping = <<>>
    /\ is_trained = FALSE
    /\ artifacts = {}
    /\ phase = "idle"
    /\ call = None
    /\ results = <<>>

\* canonicalize_disease on a name, and again on what it returned
Canonicalize ==
    /\ phase = "idle"
    /\ \E disease_name \in DiseaseNames :
       \E canonical \in {canonicalize_disease(disease_name)} :
          /\ phase' = "canonicalized"
          /\ call' = [disease_name |-> disease_name, canonical |-> canonical]
          /\ results' = canonicalize_disease(canonical)
    /\ UNCHANGED <<catalog, symptom_disease_mapping, is_trained, artifacts, hash_seed>>

\* calculate_symptom_score(symptom, severity, duration_days)
Score ==
    /\ phase = "idle"
    /\ \E symptom \in {"fever"}, severity \in ScoredSeverities,
          duration_days \in ScoredDurations :
          /\ phase' = "scored"
          /\ call' = [symptom |-> symptom, severity |-> severity,
                      duration_days |-> duration_days]
          /\ results' = calculate_symptom_score(symptom, severity, duration_days)
    /\ UNCHANGED <<catalog, symptom_disease_mapping, is_trained, artifacts, hash_seed>>

\* base confidences in ten-thousandths, the ends of [0,1] included
BaseConfidences == {0, 2500, 6100, 8000, 9000, 10000}
EnhancedDiseases == {"Gastroenteritis", "GERD", "Common Cold", "Arthritis"}

\* calculate_enhanced_confidence(base_confidence, symptom_scores, disease) over the
\* symptom_scores diagnose builds
Enhance ==
    /\ phase = "idle"
    /\ \E base_confidence \in BaseConfidences, disease \in EnhancedDiseases :
       \E symptoms \in SymptomLists :
       \E symptom_severities \in SeverityMaps(symptoms) :
       \E symptom_scores \in {SymptomScores(symptoms, symptom_severities)} :
          /\ phase' = "enhanced"
          /\ call' = [base_confidence |-> base_confidence, symptom_scores |-> symptom_scores,
                      disease |-> disease]
          /\ results' = calculate_enhanced_confidence(base_confidence, symptom_scores, disease)
    /\ UNCHANGED <<catalog, symptom_disease_mapping, is_trained, artifacts, hash_seed>>

Clear ==
    /\ phase \in {"canonicalized", "scored", "enhanced"}
    /\ phase' = "idle"
    /\ call' = None
    /\ results' = <<>>
    /\ UNCHANGED <<catalog, symptom_disease_mapping, is_trained, artifacts, hash_seed>>

NextPure == Canonicalize \/ Score \/ Enhance \/ Clear

SpecPure == InitPure /\ [][NextPure]_vars

----------------------------------------------------------------------------
(* The classifier's life cycle, statement by statement: request threads share  *)
(* one MLDiagnosisModel (the cached services of app.py) and the files under    *)
(* models/.  call holds the position of each thread and where each in-memory   *)
(* component comes from; results is the log of the files written.              *)

Threads == {1, 2}
MaxCalls == 2

\* a component as the constructor leaves it; one fitted by the training of call id;
\* one read from disk by the load of call id
NewComponent == <<"new", 0>>
Fitted(id) == <<"train", id>>
Loaded(id) == <<"load", id>>

\* positions inside predict_disease and train_model
LoadSteps == <<"load_vectorizer", "load_classifier", "load_label_encoder", "load_mark">>
TrainSteps == <<"prepare", "fit_vectorizer", "fit_label_encoder", "split", "fit_classifier",
               "mark", "save_vectorizer", "save_classifier", "save_label_encoder", "saved">>
InCall == {"check", "exists", "predict"}
             \cup {LoadSteps[i] : i \in 1..Len(LoadSteps)}
             \cup {TrainSteps[i] : i \in 1..Len(TrainSteps)}

Busy(t) == call.pc[t] # "idle"
At(t, pc) == phase = "classifier" /\ call.pc[t] = pc

\* the thread moves to pc, the rest of call as given
Goto(c, t, pc) ==
    [c EXCEPT !.pc[t] = pc,
              !.overlapped = @ \/ (pc # "idle" /\ \E u \in Threads \ {t} : c.pc[u] # "idle")]

Frame == UNCHANGED <<catalog, symptom_disease_mapping, hash_seed, phase>>

InitClassifier ==
    /\ catalog = EmptyCatalog
    /\ hash_seed = "forward"
    /\ symptom_disease_mapping = <<>>
    /\ is_trained = FALSE
    /\ artifacts = {}
    /\ phase = "classifier"
    /\ call = [pc |-> [t \in Threads |-> "idle"], op |-> [t \in Threads |-> "none"],
               id |-> [t \in Threads |-> 0], calls |-> 0, overlapped |-> FALSE,
               vectorizer |-> NewComponent, classifier |-> NewComponent,
               label_encoder |-> NewComponent]
    /\ results = <<>>

\* a request calls predict_disease, or the operator's button calls train_model
StartCall(t) ==
    /\ At(t, "idle")
    /\ call.calls < MaxCalls
    /\ \E op \in {"predict_disease", "train_model"} :
          call' = Goto([call EXCEPT !.op[t] = op, !.id[t] = call.calls + 1,
                                    !.calls = call.calls + 1],
                       t, IF op = "predict_disease" THEN "check" ELSE "prepare")
    /\ UNCHANGED <<is_trained, artifacts, results>>
    /\ Frame

\* Faulty variant of CanProceed: a lock around the lazy load-or-train
CanProceed_Locked(t) ==
    \A u \in Threads \ {t} : call.pc[u] \in {"idle", "check", "predict", "done", "raised"}

\* what the is_trained test waits for: nothing
CanProceed(t) == TRUE

\* if not self.is_trained:
CheckTrained(t) ==
    /\ At(t, "check")
    /\ CanProceed(t)
    /\ call' = Goto(call, t, IF is_trained THEN "predict" ELSE "exists")
    /\ UNCHANGED <<is_trained, artifacts, results>>
    /\ Frame

\* load_model: the existence test on the three files
CheckFiles(t) ==
    /\ At(t, "exists")
    /\ call' = Goto(call, t, IF AllArtifacts \subseteq artifacts THEN "load_vectorizer"
                             ELSE "prepare")
    /\ UNCHANGED <<is_trained, artifacts, results>>
    /\ Frame

\* load_model: one joblib.load and its assignment, or the exception that load_model
\* catches (it returns False and predict_disease trains)
LoadComponent(t) ==
    /\ \E i \in 1..3 :
          /\ At(t, LoadSteps[i])
          /\ \/ call' = Goto([call EXCEPT ![CASE i = 1 -> "vectorizer"
                                              [] i = 2 -> "classifier"
                                              [] OTHER -> "label_encoder"] = Loaded(call.id[t])],
                             t, LoadSteps[i + 1])
             \/ call' = Goto(call, t, "prepare")
    /\ UNCHANGED <<is_trained, artifacts, results>>
    /\ Frame

\* load_model: self.is_trained = True; return True
LoadMark(t) ==
    /\ At(t, "load_mark")
    /\ is_trained' = TRUE
    /\ call' = Goto(call, t, "predict")
    /\ UNCHANGED <<artifacts, results>>
    /\ Frame

\* train_model: prepare_training_data and the train/test split change nothing and
\* may raise
TrainCheck(t) ==
    /\ \E pc \in {"prepare", "split"} :
          /\ At(t, pc)
          /\ \/ call' = Goto(call, t, IF pc = "prepare" THEN "fit_vectorizer"
                                      ELSE "fit_classifier")
             \/ call' = Goto(call, t, "raised")
    /\ UNCHANGED <<is_trained, artifacts, results>>
    /\ Frame

\* train_model: fit_transform of the vectorizer, of the label encoder, fit of the
\* classifier, each in place
TrainFit(t) ==
    /\ \/ /\ At(t, "fit_vectorizer")
          /\ call' = Goto([call EXCEPT !.vectorizer = Fitted(call.id[t])], t,
                          "fit_label_encoder")
       \/ /\ At(t, "fit_label_encoder")
          /\ call' = Goto([call EXCEPT !.label_encoder = Fitted(call.id[t])], t, "split")
       \/ /\ At(t, "fit_classifier")
          /\ call' = Goto([call EXCEPT !.classifier = Fitted(call.id[t])], t, "mark")
    /\ UNCHANGED <<is_trained, artifacts, results>>
    /\ Frame

\* train_model: self.is_trained = True
TrainMark(t) ==
    /\ At(t, "mark")
    /\ is_trained' = TRUE
    /\ call' = Goto(call, t, "save_vectorizer")
    /\ UNCHANGED <<artifacts, results>>
    /\ Frame

\* save_model: one joblib.dump of the component now in memory, or the exception that
\* save_model catches
SaveComponent(t) ==
    /\ \E i \in 1..3 :
          /\ At(t, TrainSteps[6 + i])
          /\ \/ /\ artifacts' = artifacts \cup {ArtifactFiles[i]}
                /\ results' = Append(results, <<ArtifactFiles[i], call.id[t]>>)
                /\ call' = Goto(call, t, TrainSteps[7 + i])
             \/ /\ call' = Goto(call, t, "saved")
                /\ UNCHANGED <<artifacts, results>>
    /\ UNCHANGED is_trained
    /\ Frame

\* train_model returns: to predict_disease, or to the button's handler
TrainReturn(t) ==
    /\ At(t, "saved")
    /\ call' = Goto(call, t, IF call.op[t] = "predict_disease" THEN "predict" ELSE "done")
    /\ UNCHANGED <<is_trained, artifacts, results>>
    /\ Frame

\* predict_disease: transform, predict_proba, the result list
Predict(t) ==
    /\ At(t, "predict")
    /\ call' = Goto(call, t, "done")
    /\ UNCHANGED <<is_trained, artifacts, results>>
    /\ Frame

\* the call is over, by a return or by an exception
EndCall(t) ==
    /\ \/ At(t, "done")
       \/ At(t, "raised")
    /\ call' = Goto(call, t, "idle")
    /\ UNCHANGED <<is_trained, artifacts, results>>
    /\ Frame

\* a new process: a fresh MLDiagnosisModel, the files stay
NewInstance ==
    /\ phase = "classifier"
    /\ \A t \in Threads : ~Busy(t)
    /\ is_trained \/ call.vectorizer # NewComponent
    /\ is_trained' = FALSE
    /\ call' = [call EXCEPT !.vectorizer = NewComponent, !.classifier = NewComponent,
                            !.label_encoder = NewComponent, !.overlapped = FALSE]
    /\ UNCHANGED <<artifacts, results>>
    /\ Frame

ThreadStep(t) ==
    \/ CheckTrained(t) \/ CheckFiles(t) \/ LoadComponent(t) \/ LoadMark(t)
    \/ TrainCheck(t) \/ TrainFit(t) \/ TrainMark(t) \/ SaveComponent(t)
    \/ TrainReturn(t) \/ Predict(t)

NextClassifier ==
    \/ \E t \in Threads : StartCall(t) \/ ThreadStep(t) \/ EndCall(t)
    \/ NewInstance

SpecClassifier == InitClassifier /\ [][NextClassifier]_vars

----------------------------------------------------------------------------
(* Properties of diagnose, over the results and the locals of the last call *)

Returned == phase = "returned"

\* an entry built from the merged scores carries method and base_confidence;
\* an entry of the generic diagnosis has disease, confidence and precautions only
Merged(r) == "method" \in DOMAIN r

\* C1: every result diagnose returns, an entry of the merge as well as a generic
\* one, whatever the classifier did, has a confidence between 0 and 1 inclusive
C1_ConfidenceInUnitInterval ==
    \A i \in 1..Len(results) :
        /\ results[i].confidence[2] > 0
        /\ 0 <= results[i].confidence[1]
        /\ results[i].confidence[1] <= results[i].confidence[2]

\* a result whose merged score is already 1.0 and whose severity boost is positive:
\* the cap at 1.0 is what keeps it in range
C1_CappedResult ==
    /\ Returned
    /\ \E i \in 1..Len(results) :
          /\ Merged(results[i])
          /\ results[i].base_confidence = 10000
          /\ results[i].explanation # "Based on symptom pattern matching"
          /\ results[i].confidence = One

\* the call of C2: ["mild headache"], mild, one day, and no row of the catalog
\* matching (neither a mapping key nor a side effect)
C2_Case ==
    /\ Returned
    /\ call.symptoms = <<"mild headache">>
    /\ DOMAIN call.symptom_severities = {"mild headache"}
    /\ call.symptom_severities["mild headache"] = [severity |-> "mild", duration_days |-> Some(1)]
    /\ DirectMatches(call.symptoms, symptom_disease_mapping, call.fuzz) = <<>>
    /\ SideEffectMatches(call.symptoms, catalog, hash_seed) = <<>>

\* C2 as stated: in that call the result is the generic fallback, naming "Common
\* Cold" or "Unspecified Condition", every confidence 0.3 or 0.6
C2_GenericForMildHeadache ==
    C2_Case =>
        /\ \A i \in 1..Len(results) : ~Merged(results[i])
        /\ \E i \in 1..Len(results) :
              results[i].disease \in {"Common Cold", "Unspecified Condition"}
        /\ \A i \in 1..Len(results) : results[i].confidence \in {<<3, 10>>, <<3, 5>>}

\* C2 (amended): in that call the keyword table matches "headache", so the result
\* is not the generic fallback: every entry comes from the merge, none is
\* "Unspecified Condition", and Migraine, Hypertension and Common Cold are among
\* them; without classifier predictions the list is exactly these three, in this
\* order, each with confidence 0.8 and method "pattern_matching"
C2_KeywordsForMildHeadache ==
    C2_Case =>
        /\ \A i \in 1..Len(results) :
              Merged(results[i]) /\ results[i].disease # "Unspecified Condition"
        /\ {"Migraine", "Hypertension", "Common Cold"}
              \subseteq {results[i].disease : i \in 1..Len(results)}
        /\ call.ml_predictions = <<>> =>
              /\ [i \in 1..Len(results) |-> results[i].disease]
                    = <<"Migraine", "Hypertension", "Common Cold">>
              /\ \A i \in 1..Len(results) :
                    /\ results[i].confidence = <<4, 5>>
                    /\ results[i].method = "pattern_matching"

C2_MildHeadacheWithoutClassifier == C2_Case /\ call.ml_predictions = <<>>

\* C3: for every result of the merge, method is "hybrid" exactly when its canonical
\* disease is in both the pattern output and the classifier output,
\* "machine_learning" exactly when only in the classifier output, and
\* "pattern_matching" exactly when only in the pattern output
C3_MethodNamesTheSources ==
    Returned =>
        \A i \in 1..Len(results) :
            Merged(results[i]) =>
                \A c \in {canonicalize_disease(results[i].disease)} :
                \A in_ml \in {InSeq(c, call.ml_canonical_names)} :
                \A in_pattern \in {InSeq(c, call.pattern_canonical_names)} :
                    /\ results[i].method = "hybrid" <=> (in_ml /\ in_pattern)
                    /\ results[i].method = "machine_learning" <=> (in_ml /\ ~in_pattern)
                    /\ results[i].method = "pattern_matching" <=> (in_pattern /\ ~in_ml)

\* one list with all three methods
C3_AllThreeMethods ==
    /\ Returned
    /\ \A m \in {"hybrid", "machine_learning", "pattern_matching"} :
          \E i \in 1..Len(results) : Merged(results[i]) /\ results[i].method = m

\* the canonical form of a disease name: lower case, no surrounding whitespace,
\* synonyms and known misspellings replaced
C4_Canonical(name) ==
    \* a set with one element, so that the name is normalised once
    CHOOSE c \in {IF n \in DOMAIN disease_synonyms THEN disease_synonyms[n] ELSE n :
                     n \in {Strip(Lower(name))}} : TRUE

\* C4: no two results of one call have the same canonical disease name
C4_OneResultPerDisease ==
    Cardinality({C4_Canonical(results[i].disease) : i \in 1..Len(results)}) = Len(results)

\* reflux disease under two spellings in the pattern output and under two names in
\* the classifier output, and one hybrid result for it
C4_RefluxMergedOnce ==
    /\ Returned
    /\ HasKey(call.disease_scores, "GERD")
    /\ HasKey(call.disease_scores, "Gerd")
    /\ Cardinality({k \in 1..Len(call.ml_canonical_names) :
          call.ml_canonical_names[k] = "gastroesophageal reflux disease"}) = 2
    /\ \E i \in 1..Len(results) :
          /\ Merged(results[i])
          /\ results[i].method = "hybrid"
          /\ C4_Canonical(results[i].disease) = "gastroesophageal reflux disease"

\* the pattern matcher's total for a canonical disease, in ten-thousandths
C5_PatternScore(c) ==
    100 * Sum(Tuple([k \in 1..Len(call.disease_scores) |->
                        IF call.pattern_canonical_names[k] = c
                        THEN call.disease_scores[k][2] ELSE 0]))

\* C5: when the classifier raises, diagnose does not raise; it goes on with no
\* predictions, and every result of the merge has method "pattern_matching" and a
\* base_confidence equal to its pattern score clamped to 1.0
C5_ClassifierFailureContained ==
    /\ phase # "raised"
    /\ (Returned /\ call.attempted /\ call.ml_failed) =>
          /\ call.ml_predictions = <<>>
          /\ \A i \in 1..Len(results) :
                Merged(results[i]) =>
                    /\ results[i].method = "pattern_matching"
                    /\ results[i].base_confidence
                          = Min(C5_PatternScore(canonicalize_disease(results[i].disease)),
                                10000)

\* the classifier raised and a pattern score above 1.0 was clamped
C5_FailureWithClampedScore ==
    /\ Returned
    /\ call.attempted
    /\ call.ml_failed
    /\ \E i \in 1..Len(results) :
          /\ Merged(results[i])
          /\ results[i].base_confidence = 10000
          /\ C5_PatternScore(canonicalize_disease(results[i].disease)) > 10000

C6_Mentions(words) == \E w \in words : Contains(w, Lower(Join(call.symptoms, " ")))
C6_Generic(i, disease, confidence) ==
    /\ ~Merged(results[i])
    /\ results[i].disease = disease
    /\ results[i].confidence = confidence
C6_Lists(disease, confidence) == \E i \in 1..Len(results) : C6_Generic(i, disease, confidence)

\* C6: a call with symptoms for which neither the pattern matcher nor the classifier
\* produced a disease returns the generic list, never an empty one: the single
\* "Unspecified Condition" at 0.3 exactly when no keyword group occurs in the
\* symptoms, otherwise one fixed result per group that occurs ("Common Cold" at 0.6
\* for fever / headache / body ache)
C6_GenericFallback ==
    (Returned /\ call.attempted /\ call.disease_scores = <<>> /\ call.ml_predictions = <<>>) =>
        \A cold \in {C6_Mentions({"fever", "headache", "body ache"})} :
        \A gastro \in {C6_Mentions({"stomach", "abdominal", "nausea", "vomiting"})} :
        \A pain \in {C6_Mentions({"pain", "ache"})} :
            /\ Len(results) > 0
            /\ \A i \in 1..Len(results) : ~Merged(results[i])
            /\ (~cold /\ ~gastro /\ ~pain)
                  <=> (Len(results) = 1 /\ C6_Generic(1, "Unspecified Condition", <<3, 10>>))
            /\ (cold \/ gastro \/ pain) =>
                  /\ Len(results) = Cardinality({g \in {<<1, cold>>, <<2, gastro>>, <<3, pain>>} :
                                                    g[2]})
                  /\ cold <=> C6_Lists("Common Cold", <<3, 5>>)
                  /\ gastro <=> C6_Lists("Gastroenteritis", <<1, 2>>)
                  /\ pain <=> C6_Lists("General Pain/Inflammation", <<2, 5>>)

\* nothing scored, and the generic list opens with "Common Cold" at 0.6
C6_FallbackToCommonCold ==
    /\ Returned
    /\ call.attempted
    /\ call.disease_scores = <<>>
    /\ call.ml_predictions = <<>>
    /\ C6_Generic(1, "Common Cold", <<3, 5>>)

\* C7 as stated: the returned list is ranked by confidence, each result's
\* confidence at least that of the next
C7_RankedByConfidence ==
    Returned =>
        \A i \in 1..(Len(results) - 1) :
            FracLeq(results[i + 1].confidence, results[i].confidence)

C8_Names == Tuple([i \in 1..Len(results) |-> canonicalize_disease(results[i].disease)])

C8_Highest(names) ==
    /\ Len(results) = Min(Len(call.canonical_scores), 5)
    /\ \A i \in 1..Len(results) :
          /\ Merged(results[i])
          /\ HasKey(call.canonical_scores, names[i])
          /\ results[i].base_confidence
                = Min(DictGet(call.canonical_scores, names[i], 0), 10000)
    /\ \A i, j \in 1..Len(results) : i < j => names[i] # names[j]
    /\ \A k \in 1..Len(call.canonical_scores) :
          ~InSeq(call.canonical_scores[k][1], names) =>
              \A i \in 1..Len(results) :
                  call.canonical_scores[k][2] <= DictGet(call.canonical_scores, names[i], 0)
    /\ \A i \in 1..(Len(results) - 1) :
          results[i].base_confidence >= results[i + 1].base_confidence

\* C8: at most 5 results; when a disease was scored, the results are the canonical
\* diseases with the highest merged scores (all of them when fewer than 5), in
\* non-increasing order of base_confidence
C8_TopFive ==
    Returned =>
        /\ Len(results) <= 5
        /\ call.canonical_scores # <<>> => \A names \in {C8_Names} : C8_Highest(names)

\* more scored diseases than enriched entries, and five returned
C8_MoreScoredThanReturned ==
    /\ Returned
    /\ Len(call.canonical_scores) > EnrichLimit
    /\ Len(results) = 5

\* C9 as stated: when the severities map marks a submitted symptom critical, every
\* result carries a symptom_analysis with risk_level "critical"
C9_CriticalSymptomFlagsEveryResult ==
    (/\ Returned
     /\ \E k \in 1..Len(call.symptoms) :
           /\ call.symptoms[k] \in DOMAIN call.symptom_severities
           /\ call.symptom_severities[call.symptoms[k]].severity = "critical")
    => \A i \in 1..Len(results) :
           /\ "symptom_analysis" \in DOMAIN results[i]
           /\ results[i].symptom_analysis.risk_level = "critical"

\* C12: a diagnose call that reaches predict_disease loads or trains only when the
\* in-memory model is not trained: it then tries the persisted artifacts first and
\* trains only if that load fails (an artifact missing, or joblib.load raising);
\* with is_trained true the call neither loads nor trains and leaves the model and
\* the artifacts as they are, so that the artifacts of a trained model change only
\* through the explicit train_model call
C12_LoadsOrTrainsOnlyUntrained ==
    [][/\ (phase = "idle" /\ phase' \in {"returned", "raised"}) =>
            /\ is_trained =>
                  /\ call'.ml_steps = <<>>
                  /\ is_trained'
                  /\ artifacts' = artifacts
            /\ (~is_trained /\ call'.attempted) =>
                  /\ call'.ml_steps = IF AllArtifacts \subseteq artifacts /\ call'.load_ok
                                       THEN <<"load">>
                                       ELSE <<"load", "train">>
                  /\ call'.ml_steps = <<"load">> => (is_trained' /\ artifacts' = artifacts)
       /\ (is_trained /\ (artifacts' # artifacts \/ ~is_trained')) => phase' = "idle"
      ]_vars

\* a call that used the classifier of a trained model: predictions, and neither a
\* load nor a training
C12_TrainedCallUsesModel ==
    /\ Returned
    /\ is_trained
    /\ call.attempted
    /\ call.ml_steps = <<>>
    /\ call.ml_predictions # <<>>

\* C16: diagnose called with an empty symptom list returns an empty list and attempts
\* no diagnosis: no pattern scores, no classifier call, load or training (the model
\* and its artifacts stay as they were), and no generic fallback
C16_EmptyListNoDiagnosis ==
    [][(phase = "idle" /\ phase' # "idle" /\ call'.symptoms = <<>>) =>
          /\ phase' = "returned"
          /\ results' = <<>>
          /\ ~call'.attempted
          /\ call'.disease_scores = <<>>
          /\ call'.ml_steps = <<>>
          /\ call'.ml_predictions = <<>>
          /\ ~call'.ml_failed
          /\ is_trained' = is_trained
          /\ artifacts' = artifacts
      ]_vars

\* the empty call has returned over an untrained classifier without artifacts
C16_EmptyCallReturned ==
    /\ Returned
    /\ call.symptoms = <<>>
    /\ results = <<>>
    /\ ~call.attempted
    /\ ~is_trained
    /\ artifacts = {}

\* C17 as stated: for every classifier prediction, with canonical disease c and
\* confidence m, the merged score of c is 0.4*p + 0.6*m when the pattern matcher gave
\* c the score p, and 0.6*m when it gave none (scores in ten-thousandths, m in
\* hundredths)
C17_MergedScoreIsWeightedSum ==
    (Returned /\ call.attempted) =>
        \A k \in 1..Len(call.ml_predictions) :
        \A c \in {canonicalize_disease(call.ml_predictions[k].disease)} :
        \A m \in {call.ml_predictions[k].confidence} :
            10 * DictGet(call.canonical_scores, c, 0)
                = IF HasKey(call.pattern_scores, c)
                  THEN 4 * DictGet(call.pattern_scores, c, 0) + 6 * 100 * m
                  ELSE 6 * 100 * m

C19_UnspecifiedIsModerateHalf ==
    (Returned /\ call.attempted) =>
        \A k \in 1..Len(call.symptom_scores) :
            call.symptom_scores[k].symptom \notin DOMAIN call.symptom_severities =>
                /\ call.symptom_scores[k].severity = "moderate"
                /\ call.symptom_scores[k].score = 50

\* what the fuzzy signal adds to disease_scores in the last call (hundredths)
C21_Scored ==
    LET direct == DirectMatches(call.symptoms, symptom_disease_mapping, call.fuzz)
        Added(pair) == pair[2]
    IN  SumOver(direct, Added)

\* what C21 says it adds: for every symptom key and every input symptom with a
\* similarity above 60, (similarity/100)*0.7 for each entry inferred from a
\* medicine's use and (similarity/100)*1.0 for each direct disease name
C21_Claimed ==
    LET OfKey(entry) ==
            LET OfSymptom(symptom) ==
                    LET similarity == partial_ratio(Lower(symptom), entry[1], call.fuzz)
                        OfInfo(info) ==
                            IF info.source = "medicine_use" THEN (similarity * 70) \div 100
                            ELSE (similarity * 100) \div 100
                    IN  IF similarity > 60 THEN SumOver(entry[2], OfInfo) ELSE 0
            IN  SumOver(call.symptoms, OfSymptom)
    IN  SumOver(symptom_disease_mapping, OfKey)

\* C21 as stated: every symptom key whose similarity to an input symptom passes the
\* threshold contributes to a disease score, an entry inferred from a medicine's use
\* with (similarity/100)*0.7 and a direct disease name with (similarity/100)*1.0
C21_EveryMatchingEntryContributes ==
    (Returned /\ call.attempted) => C21_Scored = C21_Claimed

\* C24 as stated: after a predict_disease call that had to train the model returns,
\* the vectorizer, classifier and label-encoder artifacts are all present in the
\* model directory (so that a later fresh instance loads them instead of training)
C24_TrainedModelIsPersisted ==
    (/\ Returned
     /\ call.attempted
     /\ call.ml_steps = <<"load", "train">>
     /\ ~call.ml_failed)
    => AllArtifacts \subseteq artifacts

----------------------------------------------------------------------------
(* Properties of a repeated call, over SpecRepeat *)

\* C11 as stated: two diagnose calls with the same symptoms and severities, against
\* the same catalog and the same classifier state, return identical lists: the same
\* diseases in the same order with the same confidence, base_confidence, method,
\* explanation and precautions
C11_RepeatedCallSameResults ==
    phase = "second" => results = call.first

----------------------------------------------------------------------------
(* Properties of the lookups, over SpecLookup *)

C13_Contains(medication) == Contains(Lower(call.disease), Lower(medication.uses))

\* C13 as stated: in the list recommend_medications returns, every medicine whose
\* uses text contains the disease name (case-insensitively) comes before every
\* returned medicine whose uses text does not contain it
C13_ContainingMedicinesFirst ==
    phase = "recommended" =>
        \A i \in 1..Len(results) : \A j \in 1..Len(results) :
            (C13_Contains(results[i]) /\ ~C13_Contains(results[j])) => i < j

C14_NoRows(table) == table = None \/ table = Some(<<>>)

\* C14: a missing or empty catalog table never makes a lookup raise: with the
\* medicine table missing recommend_medications returns an empty list, with the
\* precaution table missing or without rows the precaution lookup returns an empty
\* list, with the adherence table missing get_age_based_dosage returns the generic
\* string of the age bracket, and diagnose returns a list
C14_MissingTablesNeverRaise ==
    /\ phase # "raised"
    /\ (phase = "recommended" /\ catalog.medicine_data = None) => results = <<>>
    /\ (phase = "precautions" /\ C14_NoRows(catalog.precaution_data)) => results = <<>>
    /\ (phase = "dosage" /\ catalog.adherence_data = None) =>
          results = (CASE call.age < 12 -> "Pediatric dosage - consult pediatrician"
                       [] call.age \in 12..17 ->
                              "Adolescent dosage - typically 50-75% of adult dose"
                       [] call.age \in 18..64 ->
                              "Standard adult dosage as per medication guidelines"
                       [] OTHER ->
                              "Elderly dosage - may require reduced dose, consult geriatrician")
    /\ phase = "returned" => DOMAIN results = 1..Len(results)

\* recommend_medications has returned over a catalog without the medicine table
C14_RecommendedWithoutMedicineTable ==
    /\ phase = "recommended"
    /\ catalog.medicine_data = None
    /\ results = <<>>

\* the adherence rows of the best matched medication type within 5 years of the
\* call's age; no rows without a table or without types
C23_AgeGroup ==
    IF C14_NoRows(catalog.adherence_data) THEN <<>>
    ELSE LET rows == catalog.adherence_data[1]
             Type(row) == row.medication_type
             types == Distinct(Map(rows, Type))
             InGroup(row) == /\ row.medication_type = types[Min(call.fuzz.best, Len(types))]
                             /\ row.age \in (call.age - 5)..(call.age + 5)
         IN  Select(rows, InGroup)

\* the answer of the dosage call when a match counts (matched) and when it does not:
\* the mean dosage of the age group to the nearest mg, else the age bracket's string
C23_Answer(matched) ==
    LET Dosage_mg(row) == row.dosage_mg
        total == SumOver(C23_AgeGroup, Dosage_mg)
        count == Len(C23_AgeGroup)
        nearest == IF 2 * (total % count) = count
                   THEN 2 * (((total \div count) + 1) \div 2)
                   ELSE (2 * total + count) \div (2 * count)
    IN  IF matched /\ count > 0
        THEN ToString(nearest) \o "mg (based on similar patients in your age group)"
        ELSE CASE call.age < 12 -> "Pediatric dosage - consult pediatrician"
               [] call.age \in 12..17 -> "Adolescent dosage - typically 50-75% of adult dose"
               [] call.age \in 18..64 -> "Standard adult dosage as per medication guidelines"
               [] OTHER -> "Elderly dosage - may require reduced dose, consult geriatrician"

\* C23 as stated: get_age_based_dosage returns the averaged dosage of the adherence
\* rows within 5 years of the age whenever the best matched medication type has a
\* similarity of at least 60, 60 included, and such rows exist; else the generic string
\* of the age bracket
C23_AveragedFromSixty ==
    phase = "dosage" => results = C23_Answer(call.fuzz.wratio >= 60)

\* C23 (amended): the averaged dosage is returned whenever the similarity of the best
\* matched medication type is above 60 and rows of that type within 5 years of the age
\* exist; in every other case, a similarity of exactly 60 among them, the generic
\* string of the age bracket: pediatric below 12, adolescent below 18, adult below 65,
\* elderly from 65
C23_AveragedAboveSixty ==
    phase = "dosage" => results = C23_Answer(call.fuzz.wratio > 60)

\* a similarity of exactly 60 with rows in the age group: the generic string
C23_SixtyIsGeneric ==
    /\ phase = "dosage"
    /\ call.fuzz.wratio = 60
    /\ Len(C23_AgeGroup) > 0
    /\ results = "Standard adult dosage as per medication guidelines"

----------------------------------------------------------------------------
(* Properties of the pure functions, over SpecPure *)

\* C15: canonicalization of disease names (lowercase, strip, synonym lookup) is
\* idempotent: for every name, every key and every value of the synonym table
\* among them, canonicalizing the canonical name gives the canonical name
C15_CanonicalizeIdempotent ==
    phase = "canonicalized" => results = call.canonical

\* a padded, capitalised key of the synonym table went through the table, and the
\* second application left its value alone
C15_SynonymCanonicalizedTwice ==
    /\ phase = "canonicalized"
    /\ Strip(Lower(call.disease_name)) \in DOMAIN disease_synonyms
    /\ call.disease_name # Strip(Lower(call.disease_name))
    /\ call.canonical = disease_synonyms[Strip(Lower(call.disease_name))]
    /\ results = call.canonical

\* C20 as stated: calculate_symptom_score returns severity_weight * duration_factor,
\* with weight 0.3/0.6/0.9/1.0 for mild/moderate/severe/critical and factor 0.9 for
\* a duration of at most 1 day (0 and 1), 1.0 for 2 days, 1.1 for 3 to 6 days and 1.2
\* for 7 days or more (the score in hundredths, the factor in tenths)
C20_WeightTimesDurationFactor ==
    (/\ phase = "scored"
     /\ call.severity \in {"mild", "moderate", "severe", "critical"}
     /\ call.duration_days # None)
    => \A days \in {call.duration_days[1]} :
          10 * results
             = (CASE call.severity = "mild" -> 30
                  [] call.severity = "moderate" -> 60
                  [] call.severity = "severe" -> 90
                  [] OTHER -> 100)
               * (CASE days <= 1 -> 9
                    [] days = 2 -> 10
                    [] days \in 3..6 -> 11
                    [] OTHER -> 12)

\* a submitted symptom with a positive importance for the call's disease
C22_Relevant == \E k \in 1..Len(call.symptom_scores) :
                    Relevance(call.symptom_scores[k], call.disease) > 0

\* C22: for a base confidence b in [0,1] and a symptom-score map,
\* calculate_enhanced_confidence returns e with b <= e <= b + min(0.2*b, 0.2) and
\* e <= 1; the boost is zero when no submitted symptom has a positive importance for
\* the disease
C22_BoostWithinCap ==
    phase = "enhanced" =>
        \A b \in {Frac(call.base_confidence, 10000)} :
        \A e \in {results[1]} :
            /\ FracLeq(b, e)
            /\ FracLeq(e, FracAdd(b, FracMin(FracMul(b, <<1, 5>>), <<1, 5>>)))
            /\ FracLeq(e, <<1, 1>>)
            /\ ~C22_Relevant => e = b

\* a boost that the cap of 20% of the base confidence cut down
C22_BoostAtCap ==
    /\ phase = "enhanced"
    /\ call.base_confidence = 2500
    /\ C22_Relevant
    /\ results[1] = <<3, 10>>

----------------------------------------------------------------------------
(* services/reminder_service.py: ReminderService.  phase is "reminders";     *)
(* call holds the service's map, the scheduler's clock and the last call;    *)
(* results is the set of reminder SMS that twilio_service.send_sms accepted  *)
(* in the last process_scheduled_reminders invocation.                       *)

MaxReminders == 2
MaxDay == 3
WindowMinutes == 5

Patients == {1, 2}
ReminderMedicines == {"Dolo", "dolo"}
\* the forms submitted to setup_medication_reminder; a start_date of None
\* makes start_date.isoformat() raise
SetupRequests ==
    {[patient_id |-> 1, medicine_name |-> "Dolo", start_date |-> Some(1),
      duration_days |-> 1, reminder_times |-> <<"08:00", "08:04">>],
     [patient_id |-> 1, medicine_name |-> "dolo", start_date |-> Some(3),
      duration_days |-> 1, reminder_times |-> <<"08:00">>],
     [patient_id |-> 2, medicine_name |-> "Dolo", start_date |-> Some(1),
      duration_days |-> 2, reminder_times |-> <<"08:00", "20:00">>],
     [patient_id |-> 2, medicine_name |-> "dolo", start_date |-> None,
      duration_days |-> 1, reminder_times |-> <<"08:00">>]}
ClockMinutes == {474, 478, 483}
\* what the successive send_sms calls for one reminder do: a second call
\* happens only after the first one raised
SendPlans ==
    {<<"sent", "sent">>, <<"failed", "failed">>,
     <<"raised", "sent">>, <<"raised", "failed">>, <<"raised", "raised">>}
\* what twilio_service.send_sms does with one message
SmsOutcomes == {"sent", "failed", "raised"}
\* the database argument: absent, answering, or raising in add_medication
DatabaseOutcomes == {"absent", "stored", "raised"}

DigitValue(c) == CHOOSE d \in 0..9 : ToString(d) = c
TwoDigits(s, i) == DigitValue(CharAt(s, i)) * 10 + DigitValue(CharAt(s, i + 1))

\* date.isoformat() of day d of January 2024
isoformat(d) == "2024-01-" \o (IF d < 10 THEN "0" ELSE "") \o ToString(d)
\* datetime.fromisoformat(s).date(), as the day of January 2024
fromisoformat(s) == TwoDigits(s, 9)
\* time.fromisoformat(s), as hour * 60 + minute
time_minutes(s) == TwoDigits(s, 1) * 60 + TwoDigits(s, 4)
Abs(n) == IF n < 0 THEN 0 - n ELSE n

reminder_key(patient_id, medicine_name, start_date) ==
    ToString(patient_id) \o "_" \o medicine_name \o "_" \o isoformat(start_date)

reminder_data(patient_id, medicine_name, reminder_times, start_date, duration_days) ==
    [patient_id |-> patient_id, medicine_name |-> medicine_name,
     reminder_times |-> reminder_times,
     start_date |-> isoformat(start_date),
     end_date |-> isoformat(start_date + duration_days),
     active |-> TRUE]

\* self.active_reminders[key] = value on an insertion-ordered dict
Stored(reminders, key, value) ==
    IF \E i \in 1..Len(reminders) : reminders[i][1] = key
    THEN [i \in 1..Len(reminders) |->
             IF reminders[i][1] = key THEN <<key, value>> ELSE reminders[i]]
    ELSE Append(reminders, <<key, value>>)

Deactivated(reminders, i) == [reminders EXCEPT ![i][2].active = FALSE]

\* one reminder SMS: the reminder it was sent for and the time that was due
Sms(key, reminder, time) ==
    [key |-> key, time |-> time, active |-> reminder.active,
     start_date |-> reminder.start_date, end_date |-> reminder.end_date]

LastCall(op, patient_id, medicine_name, returned) ==
    [op |-> op, patient_id |-> patient_id, medicine_name |-> medicine_name,
     returned |-> returned]

ReminderFrame == UNCHANGED <<catalog, symptom_disease_mapping, hash_seed, phase, is_trained, artifacts>>

InitReminders ==
    /\ catalog = EmptyCatalog
    /\ hash_seed = "forward"
    /\ symptom_disease_mapping = <<>>
    /\ is_trained = FALSE
    /\ artifacts = {}
    /\ phase = "reminders"
    /\ call = [active_reminders |-> <<>>, now |-> <<1, 474>>,
               last |-> LastCall("none", 0, "", <<>>)]
    /\ results = {}

\* setup_medication_reminder: the database calls, the construction of
\* reminder_data, the store under reminder_key, then the confirmation SMS; an
\* exception anywhere returns False
setup_medication_reminder ==
    /\ phase = "reminders"
    /\ \E request \in SetupRequests, database \in DatabaseOutcomes, sms \in SmsOutcomes :
          LET start_date == request.start_date
              key == reminder_key(request.patient_id, request.medicine_name, start_date[1])
              value == reminder_data(request.patient_id, request.medicine_name,
                                     request.reminder_times, start_date[1],
                                     request.duration_days)
              stored == Stored(call.active_reminders, key, value)
              raised_before_store == database = "raised" \/ start_date = None
          IN  IF raised_before_store
              THEN call' = [call EXCEPT !.last = LastCall("setup_medication_reminder",
                                request.patient_id, request.medicine_name, <<FALSE>>)]
              ELSE /\ Len(stored) <= MaxReminders
                   /\ call' = [call EXCEPT !.active_reminders = stored,
                                  !.last = LastCall("setup_medication_reminder",
                                      request.patient_id, request.medicine_name,
                                      <<sms # "raised">>)]
    /\ results' = results
    /\ ReminderFrame

\* the index of the first stored reminder of the patient for the medicine
\* (lower-cased comparison), 0 when there is none
FirstMatch(reminders, patient_id, medicine_name) ==
    LET hits == {i \in 1..Len(reminders) :
                    /\ reminders[i][2].patient_id = patient_id
                    /\ Lower(reminders[i][2].medicine_name) = Lower(medicine_name)}
    IN  IF hits = {} THEN 0 ELSE CHOOSE i \in hits : \A j \in hits : i <= j

\* cancel_reminder: the first matching reminder is set inactive, the
\* cancellation SMS is sent and True is returned from inside the loop
cancel_reminder ==
    /\ phase = "reminders"
    /\ \E patient_id \in Patients, medicine_name \in ReminderMedicines, sms \in SmsOutcomes :
          LET before == call.active_reminders
              i == FirstMatch(before, patient_id, medicine_name)
          IN  IF i = 0
              THEN call' = [call EXCEPT !.last = LastCall("cancel_reminder",
                                patient_id, medicine_name, <<FALSE>>)]
              ELSE call' = [call EXCEPT !.active_reminders = Deactivated(before, i),
                                !.last = LastCall("cancel_reminder",
                                    patient_id, medicine_name, <<sms # "raised">>)]
    /\ results' = results
    /\ ReminderFrame

\* the loop over reminder['reminder_times'] from position j, the k-th
\* send_sms call being next: the first time within the window is sent and
\* ends the loop, unless the send raised
RECURSIVE SendDue(_, _, _, _, _, _)
SendDue(key, reminder, j, k, plan, now) ==
    IF j > Len(reminder.reminder_times) THEN [sent |-> {}, sent_count |-> 0, failed_count |-> 0]
    ELSE LET time == reminder.reminder_times[j]
             due == Abs(now[2] - time_minutes(time)) <= WindowMinutes
         IN  IF ~due THEN SendDue(key, reminder, j + 1, k, plan, now)
             ELSE IF plan[k] = "sent"
             THEN [sent |-> {Sms(key, reminder, time)}, sent_count |-> 1, failed_count |-> 0]
             ELSE IF plan[k] = "failed"
             THEN [sent |-> {}, sent_count |-> 0, failed_count |-> 1]
             ELSE [SendDue(key, reminder, j + 1, k + 1, plan, now)
                      EXCEPT !.failed_count = @ + 1]

\* the loop over self.active_reminders.items() from position i
RECURSIVE ProcessFrom(_, _, _, _)
ProcessFrom(reminders, i, plans, now) ==
    IF i > Len(reminders)
    THEN [reminders |-> reminders, sent |-> {}, sent_count |-> 0, failed_count |-> 0]
    ELSE LET reminder == reminders[i][2]
         IN  IF ~reminder.active THEN ProcessFrom(reminders, i + 1, plans, now)
             ELSE IF now[1] > fromisoformat(reminder.end_date)
             THEN ProcessFrom(Deactivated(reminders, i), i + 1, plans, now)
             ELSE LET one == SendDue(reminders[i][1], reminder, 1, 1, plans[i], now)
                      rest == ProcessFrom(reminders, i + 1, plans, now)
                  IN  [reminders |-> rest.reminders,
                       sent |-> one.sent \cup rest.sent,
                       sent_count |-> one.sent_count + rest.sent_count,
                       failed_count |-> one.failed_count + rest.failed_count]

NotBefore(now, then) == now[1] > then[1] \/ (now[1] = then[1] /\ now[2] >= then[2])

\* process_scheduled_reminders, called by the scheduler at a clock reading
\* not before the last one
process_scheduled_reminders ==
    /\ phase = "reminders"
    /\ \E date \in 1..MaxDay, minutes \in ClockMinutes,
          plans \in [1..Len(call.active_reminders) -> SendPlans] :
          /\ NotBefore(<<date, minutes>>, call.now)
          /\ LET now == <<date, minutes>>
                 done == ProcessFrom(call.active_reminders, 1, plans, now)
             IN  /\ call' = [call EXCEPT !.active_reminders = done.reminders,
                                !.now = now,
                                !.last = LastCall("process_scheduled_reminders", 0, "",
                                             <<done.sent_count, done.failed_count>>)]
                 /\ results' = done.sent
    /\ ReminderFrame

NextReminders == setup_medication_reminder \/ cancel_reminder \/ process_scheduled_reminders

SpecReminders == InitReminders /\ [][NextReminders]_vars

----------------------------------------------------------------------------
(* Properties of the classifier's life cycle, over SpecClassifier *)

\* C25: nothing serializes the lazy train-on-first-use: a thread inside a call can
\* always take its next step, whatever the other thread is doing, so two threads
\* whose first predict_disease calls overlap on an untrained model without
\* persisted artifacts can both pass the is_trained test and both run train_model,
\* each writing the artifacts over the other's
C25_NothingSerializes ==
    phase = "classifier" =>
        \A t \in Threads : call.pc[t] \in InCall => ENABLED ThreadStep(t)

\* the only two calls ever made were overlapping predict_disease calls, both have
\* trained and each has written every artifact: the files of the first writer
\* were overwritten
C25_BothTrainedAndOverwrote ==
    /\ phase = "classifier"
    /\ call.calls = 2
    /\ call.overlapped
    /\ \A t \in Threads : call.op[t] = "predict_disease" /\ call.pc[t] = "done"
    /\ \A t \in Threads : \A f \in AllArtifacts :
           \E k \in 1..Len(results) : results[k] = <<f, call.id[t]>>

\* C27 as stated: whenever is_trained is true, the in-memory vectorizer, label encoder
\* and classifier all come from the same successful training run or the same
\* successful load, after any sequence of load_model, train_model (a train_model
\* failing part-way included) and predict_disease calls; no two calls overlap
C27_ComponentsFromOneRun ==
    (phase = "classifier" /\ is_trained /\ ~call.overlapped
       /\ \A t \in Threads : ~Busy(t))
    => /\ call.vectorizer = call.classifier
       /\ call.classifier = call.label_encoder
       /\ call.vectorizer # NewComponent

----------------------------------------------------------------------------
(* Properties of the reminder service, over SpecReminders *)

\* C26 as stated: after cancel_reminder(patient_id, medicine_name) has returned True,
\* no stored reminder of that patient for that medicine (names compared
\* case-insensitively) is still active, however many were set up
C26_CancelledNoneActive ==
    (phase = "reminders" /\ call.last.op = "cancel_reminder" /\ call.last.returned = <<TRUE>>)
    => \A i \in 1..Len(call.active_reminders) :
          LET reminder == call.active_reminders[i][2]
          IN  (/\ reminder.patient_id = call.last.patient_id
               /\ Lower(reminder.medicine_name) = Lower(call.last.medicine_name))
              => ~reminder.active

\* C28 as stated: a setup_medication_reminder call that returns False leaves the
\* in-memory reminder map unchanged, whichever step raised
C28_FailedSetupLeavesMap ==
    [][(/\ phase = "reminders"
        /\ call'.last.op = "setup_medication_reminder"
        /\ call'.last.returned = <<FALSE>>)
       => call'.active_reminders = call.active_reminders]_vars

\* C29 as stated: process_scheduled_reminders sends a reminder SMS only for an active
\* reminder and only while the current date lies between its start_date and its
\* end_date, both included; a reminder whose end_date has passed is inactive after
\* the invocation
C29_SentOnlyActiveInRange ==
    (phase = "reminders" /\ call.last.op = "process_scheduled_reminders")
    => /\ \A m \in results :
             /\ m.active
             /\ fromisoformat(m.start_date) <= call.now[1]
             /\ call.now[1] <= fromisoformat(m.end_date)
       /\ \A i \in 1..Len(call.active_reminders) :
             call.now[1] > fromisoformat(call.active_reminders[i][2].end_date)
             => ~call.active_reminders[i][2].active

\* C30 as stated: an active reminder gets at most one SMS per configured reminder
\* time per day: an invocation sends at most one SMS per reminder, and an
\* invocation that follows another one on the same day does not send again for
\* a reminder time the earlier one has sent for
C30_OncePerTimePerDay ==
    [][(/\ phase = "reminders"
        /\ call'.last.op = "process_scheduled_reminders")
       => /\ \A m, n \in results' : m.key = n.key => m = n
          /\ (call.last.op = "process_scheduled_reminders" /\ call'.now[1] = call.now[1])
             => \A m \in results' : \A n \in results :
                   ~(m.key = n.key /\ m.time = n.time)]_vars

----------------------------------------------------------------------------
(* Properties of analyze_symptom_pattern, over SpecAnalyze *)

C10_Count(severity) ==
    Cardinality({k \in 1..Len(call.symptom_scores) :
                    Lower(call.symptom_scores[k].severity) = severity})
C10_Total == Sum(Tuple([k \in 1..Len(call.symptom_scores) |-> call.symptom_scores[k].score]))
\* the average of the scores (hundredths) is above t hundredths; 0 for an empty map
C10_AverageAbove(t) ==
    Len(call.symptom_scores) > 0 /\ C10_Total > t * Len(call.symptom_scores)

\* C10: analyze_symptom_pattern returns the first level that applies: critical (a
\* critical symptom, or average above 0.8), high (more than one severe symptom, or
\* average above 0.7), moderate (a severe symptom, or average above 0.5), else low;
\* an empty map has average 0 and level low
C10_FirstApplicableLevel ==
    phase = "analyzed" =>
        /\ call.analysis.risk_level =
              (CASE C10_Count("critical") >= 1 \/ C10_AverageAbove(80) -> "critical"
                 [] OTHER ->
               CASE C10_Count("severe") >= 2 \/ C10_AverageAbove(70) -> "high"
                 [] OTHER ->
               CASE C10_Count("severe") >= 1 \/ C10_AverageAbove(50) -> "moderate"
                 [] OTHER -> "low")
        /\ call.symptom_scores = <<>> =>
              /\ call.analysis.average_severity = <<0, 1>>
              /\ call.analysis.risk_level = "low"

\* one severe symptom and an average of at most 0.7: moderate, not high
C10_OneSevereIsModerate ==
    /\ phase = "analyzed"
    /\ C10_Count("severe") = 1
    /\ C10_Count("critical") = 0
    /\ ~C10_AverageAbove(50)
    /\ call.analysis.risk_level = "moderate"

====
